---- MODULE Spec2Model ----
(***************************************************************************)
(* Model of the GeoInzicht batch pipeline: the paginated fetchers of       *)
(* build_geojson.py, enrich_geojson.py, enrich_batch.py, download_bag.py   *)
(* and build_bag.py, the field resolver, and the build and enrichment      *)
(* passes of build_geojson.py, enrich_geojson.py, enrich_batch.py,         *)
(* enrich_from_sql.py and enrich_flora_fauna.py.                           *)
(*                                                                         *)
(* The specifications share the variables:                                 *)
(*   SpecFetch    the pagination loops against a remote feature service    *)
(*   SpecOrder    the same, the service changing its row order             *)
(*   SpecResolve  resolve_fields over bounded lists of attribute names     *)
(*   SpecReorder  resolve_fields on the same names in another order        *)
(*   SpecEnrich   build and enrichment passes over one GeoJSON file        *)
(*   SpecRerun    a pass and its repetition on the file it wrote           *)
(*   SpecRebuild  build_year repeated, with the clock running              *)
(*   SpecPipeline the fetch runs and the passes together                   *)
(*   SpecNaam     normalize_naam of the two name-keyed enrichers           *)
(*   SpecGeometry simplify_geometry on its three paths                     *)
(*   SpecClean    the cleaning of fetched rows in build_year and           *)
(*                build_gemeente                                           *)
(*   SpecStages   enrich_year and enrich_batch stage by stage              *)
(*   SpecHead     enrich_year on files longer than the head it looks at    *)
(*   SpecRetry    the retrying helpers, attempt by attempt                 *)
(*   SpecFlora    enrich_flora_fauna.main step by step, with interrupts    *)
(* FairSpecFetch is SpecFetch under weak fairness of its steps.            *)
(***************************************************************************)
EXTENDS Integers, Sequences, FiniteSets, TLC

VARIABLES
    \* ---- remote feature service (PDOK WFS) ----
    svc,            \* [n, failAt, nm, hits, hitsFail, order, bad, badAt]: the
                    \* remote collection
    failsLeft,      \* failing answers the service still gives (Forever = -1)
    \* ---- one run of a paginated fetcher ----
    fetcher,        \* which function runs
    expected_total, \* argument expected_total / count_features result
    max_features,   \* argument of download_bag.download_features (0 = None)
    pc,             \* position of the running function
    start,          \* local start / start_index
    all_features,   \* local all_features / all_data / result (record ids)
    reqlog,         \* startIndex of every page request issued, in order
    bag_file,       \* bag_<code>.geojson on disk
    \* ---- field resolution ----
    available,      \* attribute names discover_fields found, in order
    field_map,      \* result of resolve_fields: app key -> remote name
    \* ---- build and enrichment passes over gemeenten_<year>.geojson ----
    remote,         \* code -> the remote record's attribute values
    disk,           \* the GeoJSON file on disk
    pending,        \* the document json.dump is writing
    before,         \* the file as the running (or last) pass loaded it
    last,           \* what the running (or last) pass did
    cache,          \* gbif_flora_cache.json: normalized name -> GBIF counts
    runs,           \* the number of build and enrichment runs started
    now,            \* the wall clock, in seconds
    prev,           \* what was noted of an earlier run, for comparison
    naam_in,        \* a gemeente name, as a sequence of characters and suffixes
    matchkey,       \* the matching key computed last: [fn, naam, key]
    earlier,        \* the matching key computed before that
    geom_dict,      \* the geometry handed to simplify_geometry
    result,         \* what simplify_geometry returned, and on which path
    \* ---- the GBIF service, enrich_flora_fauna.main and the retrying helpers ----
    gbif_api,       \* normalized name -> what GBIF holds, and whether it answers
    mem,            \* the dict `cache` of main, in memory
    ff,             \* locals of main and of the enrich_file call it is in
    ret             \* the value a helper call returned ({} = None)

fetchVars == <<svc, failsLeft, fetcher, expected_total, max_features, pc,
               start, all_features, reqlog, bag_file>>

fetchVarsNoPc == <<svc, failsLeft, fetcher, expected_total, max_features,
                   start, all_features, reqlog, bag_file>>

resolveVars == <<available, field_map>>

callVars == <<gbif_api, mem, ff, ret>>

pureVars == <<naam_in, matchkey, earlier, geom_dict, result, callVars>>

nonFetchVars == <<available, field_map, remote, disk, pending, before, last,
                  cache, runs, now, prev, pureVars>>

enrichVars == <<remote, disk, pending, before, last, cache, runs, now, prev,
                pureVars>>

histVars == <<now, prev>>

vars == <<svc, failsLeft, fetcher, expected_total, max_features, pc,
          start, all_features, reqlog, bag_file, available, field_map,
          remote, disk, pending, before, last, cache, runs, now, prev,
          naam_in, matchkey, earlier, geom_dict, result, gbif_api, mem, ff,
          ret>>

(***************************************************************************)
(* Bounds of the model                                                     *)
(***************************************************************************)
MaxPages == 2          \* remote collections hold up to MaxPages full pages and a rest
MaxLog == MaxPages + 6 \* the request log stops growing at this length
MaxNameLen == 2        \* remote attribute names have up to MaxNameLen characters
MaxAvail == 2          \* discover_fields finds up to MaxAvail attribute names
MaxFeatures == 3       \* the GeoJSON file and the remote layer hold up to MaxFeatures areas
MaxRuns == 2           \* a behaviour starts up to MaxRuns build and enrichment runs
MaxClock == 1          \* the clock is followed for MaxClock seconds
MaxNaamLen == 3        \* gemeente names have up to MaxNaamLen items
MaxCoords == 3         \* a geometry has up to MaxCoords coordinates

(***************************************************************************)
(* Program constants                                                       *)
(***************************************************************************)
PAGE_SIZE == 1000     \* build_geojson.py, enrich_geojson.py, download_bag.py, build_bag.py
PDOK_LIMIT == 1000    \* the service's hard ceiling of records per request
BATCH_COUNT == 2000   \* "count" asked by enrich_batch.fetch_batch
MAX_RETRIES == 3      \* build_bag.py
Forever == 0 - 1      \* failsLeft of a service that never recovers
NoMax == 0            \* max_features=None

Min(a, b) == IF a < b THEN a ELSE b

Range(s) == {s[i] : i \in 1..Len(s)}

(***************************************************************************)
(* The remote service.  Record i of the collection (in the service's       *)
(* stable order) carries the administrative code i, so codes are distinct  *)
(* and non-empty.  A request for `count` records at `startIndex` is        *)
(* answered with at most PDOK_LIMIT records.  svc.order is the order the   *)
(* service has its rows in: by identifier, or the other way round.         *)
(***************************************************************************)
\* the requests of this fetcher carry "sortBy": "identificatie"
SortBy == fetcher \in {"download_bag", "build_bag"}

\* the record at position p of the answer: a sorted request is answered in
\* the order of the identifier, an unsorted one in the order the service
\* has its rows in at the time
RecordAt(p) ==
    IF SortBy \/ svc.order = "id" THEN p ELSE svc.n + 1 - p

Page(startIndex, count) ==
    LET k == Min(Min(count, PDOK_LIMIT), svc.n - startIndex)
    IN  IF k <= 0 THEN <<>> ELSE [i \in 1..k |-> RecordAt(startIndex + i)]

\* does the request at this offset fail now?
Fails(startIndex) ==
    /\ svc.failAt >= 0
    /\ startIndex >= svc.failAt
    /\ failsLeft # 0

AfterFailures(k) ==
    IF failsLeft = Forever THEN Forever ELSE failsLeft - k

\* the numberMatched the loop sees: data.get("numberMatched", expected_total)
NumberMatched == IF svc.nm THEN svc.n ELSE expected_total

Log(offsets) ==
    LET room == MaxLog - Len(reqlog)
    IN  IF room <= 0 THEN reqlog
        ELSE reqlog \o SubSeq(offsets, 1, Min(room, Len(offsets)))

\* dict insertion of the records of a page, keyed by code
DictPut(d, recs) ==
    LET held == Range(d)
        fresh == SelectSeq(recs, LAMBDA r : r \notin held)
    IN  IF Range(recs) \cap Range(d) = {} /\ Cardinality(Range(recs)) = Len(recs)
        THEN d \o recs
        ELSE IF Cardinality(Range(fresh)) = Len(fresh)
        THEN d \o fresh
        ELSE LET keep(i) == \A j \in 1..(i-1) : fresh[j] # fresh[i]
                 idx == {i \in 1..Len(fresh) : keep(i)}
                 nth(S, k) ==
                     CHOOSE i \in S : Cardinality({j \in S : j < i}) = k - 1
             IN  d \o [k \in 1..Cardinality(idx) |-> fresh[nth(idx, k)]]

\* a loop that steps one record short of the page it received
NextStartOverlap(s, features) == s + Len(features) - 1

\* start += len(features)
NextStart(s, features) == s + Len(features)

(***************************************************************************)
(* build_geojson.download_features: one iteration of the while loop.       *)
(* requests.get / raise_for_status are not guarded, so a failing request   *)
(* raises out of the function and nothing is returned.                     *)
(***************************************************************************)
\* the stop tests of the loop without the one on numberMatched
StopDownloadNoTotal(features, got) ==
    \/ Len(features) = 0
    \/ Len(features) < PAGE_SIZE

StopDownload(features, got) ==
    \/ Len(features) = 0
    \/ (NumberMatched > 0 /\ Len(got) >= NumberMatched)
    \/ Len(features) < PAGE_SIZE

DownloadFeaturesPage ==
    /\ fetcher = "build_geojson"
    /\ pc = "loop"
    /\ reqlog' = Log(<<start>>)
    /\ IF Fails(start)
       THEN /\ failsLeft' = AfterFailures(1)
            /\ pc' = "raised"
            /\ UNCHANGED <<start, all_features>>
       ELSE LET features == Page(start, PAGE_SIZE)
                got == all_features \o features
            IN  /\ all_features' = got
                /\ failsLeft' = failsLeft
                /\ IF StopDownload(features, got)
                   THEN pc' = "returned" /\ start' = start
                   ELSE pc' = "loop" /\ start' = NextStart(start, features)
    /\ UNCHANGED <<svc, fetcher, expected_total, max_features, bag_file>>
    /\ UNCHANGED nonFetchVars

(***************************************************************************)
(* enrich_geojson.download_stats_only: the same loop, collecting into a    *)
(* dict keyed by the id field; the stop test counts the dict's entries.    *)
(***************************************************************************)
DownloadStatsPage ==
    /\ fetcher = "enrich_geojson"
    /\ pc = "loop"
    /\ reqlog' = Log(<<start>>)
    /\ IF Fails(start)
       THEN /\ failsLeft' = AfterFailures(1)
            /\ pc' = "raised"
            /\ UNCHANGED <<start, all_features>>
       ELSE LET features == Page(start, PAGE_SIZE)
                got == DictPut(all_features, features)
            IN  /\ all_features' = got
                /\ failsLeft' = failsLeft
                /\ IF StopDownload(features, got)
                   THEN pc' = "returned" /\ start' = start
                   ELSE pc' = "loop" /\ start' = NextStart(start, features)
    /\ UNCHANGED <<svc, fetcher, expected_total, max_features, bag_file>>
    /\ UNCHANGED nonFetchVars

(***************************************************************************)
(* enrich_batch.fetch_batch: asks for 2000 records per request and takes   *)
(* a page of fewer than 2000 for the last one.                             *)
(***************************************************************************)
StopBatch(features) == Len(features) = 0 \/ Len(features) < BATCH_COUNT

FetchBatchPage ==
    /\ fetcher = "enrich_batch"
    /\ pc = "loop"
    /\ reqlog' = Log(<<start>>)
    /\ IF Fails(start)
       THEN /\ failsLeft' = AfterFailures(1)
            /\ pc' = "raised"
            /\ UNCHANGED <<start, all_features>>
       ELSE LET features == Page(start, BATCH_COUNT)
                got == DictPut(all_features, features)
            IN  /\ all_features' = got
                /\ failsLeft' = failsLeft
                /\ IF \/ StopBatch(features)
                      \/ (NumberMatched > 0 /\ Len(got) >= NumberMatched)
                   THEN pc' = "returned" /\ start' = start
                   ELSE pc' = "loop" /\ start' = NextStart(start, features)
    /\ UNCHANGED <<svc, fetcher, expected_total, max_features, bag_file>>
    /\ UNCHANGED nonFetchVars

(***************************************************************************)
(* download_bag.download_features: a RequestException on a later page      *)
(* sleeps 5 seconds and continues the loop at the same offset; on the      *)
(* first page it is re-raised.                                             *)
(***************************************************************************)
BagDownloadPage ==
    /\ fetcher = "download_bag"
    /\ pc = "loop"
    /\ reqlog' = Log(<<start>>)
    /\ IF Fails(start)
       THEN /\ failsLeft' = AfterFailures(1)
            /\ pc' = IF start > 0 THEN "backoff" ELSE "raised"
            /\ UNCHANGED <<start, all_features>>
       ELSE LET features == Page(start, PAGE_SIZE)
                got == all_features \o features
            IN  /\ failsLeft' = failsLeft
                /\ IF Len(features) = 0
                   THEN pc' = "returned" /\ start' = start /\ all_features' = got
                   ELSE IF max_features # NoMax /\ Len(got) >= max_features
                   THEN /\ pc' = "returned" /\ start' = start
                        /\ all_features' = SubSeq(got, 1, max_features)
                   ELSE IF Len(features) < PAGE_SIZE
                   THEN pc' = "returned" /\ start' = start /\ all_features' = got
                   ELSE /\ pc' = "loop" /\ start' = NextStart(start, features)
                        /\ all_features' = got
    /\ UNCHANGED <<svc, fetcher, expected_total, max_features, bag_file>>
    /\ UNCHANGED nonFetchVars

\* time.sleep(5); continue
BagRetry ==
    /\ fetcher = "download_bag"
    /\ pc = "backoff"
    /\ pc' = "loop"
    /\ UNCHANGED <<svc, failsLeft, fetcher, expected_total, max_features,
                   start, all_features, reqlog, bag_file>>
    /\ UNCHANGED nonFetchVars

\* download_bag.main after the download: metadata with "count":
\* len(features), then save_geojson(features, output_file, ...)
SaveGeojson ==
    /\ fetcher = "download_bag"
    /\ pc = "returned"
    /\ bag_file' = [exists |-> TRUE, count |-> Len(all_features),
                     features |-> all_features,
                     gebruiksdoelen |-> <<>>, statussen |-> <<>>]
    /\ pc' = "saved"
    /\ UNCHANGED <<svc, failsLeft, fetcher, expected_total, max_features,
                   start, all_features, reqlog>>
    /\ UNCHANGED nonFetchVars

(***************************************************************************)
(* build_bag.py                                                            *)
(***************************************************************************)
\* The rows of the verblijfsobject layer.  Row r carries the identificatie
\* r, a geometry, a gebruiksdoel and a status, but for the one row
\* svc.badAt, which (svc.bad) has no identificatie, has no geometry, or is
\* a second row of the object of row 1 (a nevenadres).
Identificatie(r) ==
    IF r = svc.badAt /\ svc.bad = "id" THEN 0
    ELSE IF r = svc.badAt /\ svc.bad = "dup" THEN 1
    ELSE r

HasGeometry(r) == ~(r = svc.badAt /\ svc.bad = "geom")

\* props.get("gebruiksdoel", "onbekend"): every third row has none
Gebruiksdoel(r) ==
    IF r % 3 = 0 THEN "onbekend"
    ELSE IF r % 3 = 1 THEN "woonfunctie" ELSE "winkelfunctie"

\* props.get("status", "onbekend"): every fourth row has none
Status(r) == IF r % 4 = 0 THEN "onbekend" ELSE "in gebruik"

\* gebruiksdoelen[gd] = gebruiksdoelen.get(gd, 0) + 1 over the features
Gebruiksdoelen(features) ==
    LET seen == {Gebruiksdoel(features[i]) : i \in 1..Len(features)}
    IN  [gd \in seen |->
            Cardinality({i \in 1..Len(features) :
                            Gebruiksdoel(features[i]) = gd})]

\* statussen[st] = statussen.get(st, 0) + 1 over the features
Statussen(features) ==
    LET seen == {Status(features[i]) : i \in 1..Len(features)}
    IN  [st \in seen |->
            Cardinality({i \in 1..Len(features) : Status(features[i]) = st})]

NoFile == [exists |-> FALSE, count |-> 0, features |-> <<>>,
           gebruiksdoelen |-> <<>>, statussen |-> <<>>]

\* a good file of an earlier run of the same gemeente
PrevBagFile == [exists |-> TRUE, count |-> 2, features |-> <<1, 2>>,
                gebruiksdoelen |-> Gebruiksdoelen(<<1, 2>>),
                statussen |-> Statussen(<<1, 2>>)]

\* download_page: up to MAX_RETRIES attempts, [] when all of them fail
DownloadPageAttempts(start_index) ==
    IF ~Fails(start_index) THEN 1
    ELSE IF failsLeft = Forever THEN MAX_RETRIES
    ELSE Min(failsLeft + 1, MAX_RETRIES)

DownloadPageFailures(start_index) ==
    IF ~Fails(start_index) THEN 0
    ELSE IF failsLeft = Forever THEN MAX_RETRIES
    ELSE Min(failsLeft, MAX_RETRIES)

download_page(start_index) ==
    IF DownloadPageFailures(start_index) = MAX_RETRIES
    THEN <<>>
    ELSE Page(start_index, PAGE_SIZE)

\* clean_feature returns None for a row without geometry or identificatie
clean_feature(r) == HasGeometry(r) /\ Identificatie(r) # 0

\* the clean loop of build_gemeente without the test of clean_feature
CleanAllKeepsAll(raw) == raw

\* cleaned: the rows clean_feature does not return None for
CleanAll(raw) == SelectSeq(raw, clean_feature)

\* the first occurrences of the first half of the list, then those of the
\* second half whose identificatie the first half does not hold
RECURSIVE FirstOccurrences(_)
FirstOccurrences(cleaned) ==
    LET n == Len(cleaned)
        h == n \div 2
        left == FirstOccurrences(SubSeq(cleaned, 1, h))
        right == FirstOccurrences(SubSeq(cleaned, h + 1, n))
        seen == {Identificatie(left[i]) : i \in 1..Len(left)}
    IN  IF n <= 1 THEN cleaned
        ELSE left \o SelectSeq(right,
                                LAMBDA r : Identificatie(r) \notin seen)

\* the deduplication of build_gemeente left out
DedupeKeepsAll(cleaned) == cleaned

\* Deduplicate by identificatie, keeping the first occurrence; a list that
\* holds no identificatie twice is kept as it is
Dedupe(cleaned) ==
    IF Cardinality({Identificatie(r) : r \in Range(cleaned)}) = Len(cleaned)
    THEN cleaned
    ELSE FirstOccurrences(cleaned)

\* (total + PAGE_SIZE - 1) // PAGE_SIZE
TotalPages(total) == (total + PAGE_SIZE - 1) \div PAGE_SIZE

\* Stap 1 of build_gemeente: count_features, which raises when the hits
\* query fails MAX_RETRIES times; total <= 0 returns None without writing
BuildGemeenteCount ==
    /\ fetcher = "build_bag"
    /\ pc = "count"
    /\ IF svc.hitsFail
       THEN pc' = "raised" /\ expected_total' = expected_total
       ELSE /\ expected_total' = svc.hits
            /\ pc' = IF svc.hits <= 0 THEN "returned" ELSE "loop"
    /\ UNCHANGED <<svc, failsLeft, fetcher, max_features, start,
                   all_features, reqlog, bag_file>>
    /\ UNCHANGED nonFetchVars

\* Stap 2: one iteration of `for page in range(total_pages)`
BuildGemeentePage ==
    /\ fetcher = "build_bag"
    /\ pc = "loop"
    /\ LET features == download_page(start)
           attempts == DownloadPageAttempts(start)
       IN  /\ reqlog' = Log([i \in 1..attempts |-> start])
           /\ failsLeft' = AfterFailures(DownloadPageFailures(start))
           /\ all_features' = all_features \o features
           /\ IF Len(features) = 0 \/ Len(features) < PAGE_SIZE
              THEN pc' = "clean" /\ start' = start
              ELSE /\ start' = start + PAGE_SIZE
                   /\ pc' = IF start + PAGE_SIZE
                                  >= TotalPages(expected_total) * PAGE_SIZE
                            THEN "clean" ELSE "loop"
    /\ UNCHANGED <<svc, fetcher, expected_total, max_features, bag_file>>
    /\ UNCHANGED nonFetchVars

\* Stap 3 and 4: clean, deduplicate, write bag_<code>.geojson
BuildGemeenteWrite ==
    /\ fetcher = "build_bag"
    /\ pc = "clean"
    /\ \E cleaned \in {CleanAll(all_features)} :
       \E unique \in {Dedupe(cleaned)} :
          bag_file' = [exists |-> TRUE, count |-> Len(unique),
                       features |-> unique,
                       gebruiksdoelen |-> Gebruiksdoelen(unique),
                       statussen |-> Statussen(unique)]
    /\ pc' = "returned"
    /\ UNCHANGED <<svc, failsLeft, fetcher, expected_total, max_features,
                   start, all_features, reqlog>>
    /\ UNCHANGED nonFetchVars

\* the variables of the other specifications at rest
ResolveIdle == available = <<>> /\ field_map = <<>>

NoMeta == [generated |-> 0, count |-> 0, with_data |-> 0, indicators |-> {},
           indicators_count |-> 0, bbg_peiljaar |-> {}, gbif_source |-> FALSE]

\* no <type>_<year>.geojson in the directory
NoGeo == [st |-> "absent", features |-> <<>>, metadata |-> NoMeta]

\* a run's locals: which function runs, whether it reached the write, the
\* codes and the normalized names it holds fetched records for, its count
NoCbs == [bbg |-> <<>>, lbt |-> <<>>, domains |-> {}]

\* the inputs of a run that are not in the file or the remote layer: the
\* batches fetched, the CBS tables, the GBIF answers, --no-cache
NoInput == [done |-> {}, cbs |-> NoCbs, gbif |-> <<>>, skip_cached |-> FALSE,
            batch |-> 0]

NoPass == [name |-> "none", wrote |-> FALSE, fetched |-> {}, names |-> {},
           enriched |-> 0, ok |-> FALSE, input |-> NoInput]

\* nothing noted; and the note dropped once the next run has been compared
\* with it
NoPrev == [name |-> "none", run |-> 0, ok |-> FALSE, input |-> NoInput,
           doc |-> NoGeo]

Compared == [NoPrev EXCEPT !.name = "compared"]

NoKey == [fn |-> "none", naam |-> <<>>, key |-> <<>>]

NoGeom == [type |-> "none", coordinates |-> <<>>]

NoResult == [path |-> "none", geom |-> NoGeom]

\* main before its loop over the files: no file begun, no exit code
\* files: the list main goes through; loaded: the dict main began with;
\* asked: the names an occurrence request went out for; got: the rows
\* fetch_gemeente_data returned in this run
NoFlora == [file |-> 0, files |-> <<>>, todo |-> <<>>, ff_data |-> <<>>,
            new_fetched |-> 0, success |-> 0, asked |-> {}, got |-> <<>>,
            loaded |-> <<>>, skip_cached |-> TRUE, interrupted |-> "no",
            code |-> {}]

CallIdle ==
    /\ gbif_api = <<>>
    /\ mem = <<>>
    /\ ff = NoFlora
    /\ ret = {}

PureIdle ==
    /\ naam_in = <<>>
    /\ matchkey = NoKey
    /\ earlier = NoKey
    /\ geom_dict = NoGeom
    /\ result = NoResult
    /\ CallIdle

EnrichIdle ==
    /\ remote = <<>>
    /\ disk = NoGeo
    /\ pending = NoGeo
    /\ before = NoGeo
    /\ last = NoPass
    /\ cache = <<>>
    /\ runs = 0
    /\ now = 0
    /\ prev = NoPrev

FetchIdle ==
    /\ svc = [n |-> 0, failAt |-> 0 - 1, nm |-> FALSE, hits |-> 0 - 1,
              hitsFail |-> FALSE, order |-> "id", bad |-> "none",
              badAt |-> 0]
    /\ failsLeft = 0
    /\ fetcher = "none"
    /\ expected_total = 0 - 1
    /\ max_features = NoMax
    /\ start = 0
    /\ all_features = <<>>
    /\ reqlog = <<>>
    /\ bag_file = NoFile

(***************************************************************************)
(* SpecFetch: one run of one fetcher against one remote collection.        *)
(***************************************************************************)
Fetchers == {"build_geojson", "enrich_geojson", "enrich_batch",
             "download_bag", "build_bag"}

Rests == {0, 1, 500, 999}

Sizes == {p * PAGE_SIZE + r : p \in 0..MaxPages, r \in Rests}

Services ==
    [n : Sizes,
     failAt : {0 - 1} \cup {p * PAGE_SIZE : p \in 0..MaxPages},
     nm : BOOLEAN,
     hits : {0 - 1} \cup Sizes,
     hitsFail : BOOLEAN,
     order : {"id"},
     bad : {"none"},
     badAt : {0}]

InitFetch ==
    /\ fetcher \in Fetchers
    /\ svc \in Services
    /\ svc.hits \in {0 - 1, svc.n}
    /\ svc.hitsFail => fetcher = "build_bag"
    /\ svc.nm => fetcher \in {"build_geojson", "enrich_geojson", "enrich_batch"}
    /\ failsLeft \in IF svc.failAt < 0 THEN {0} ELSE {1, MAX_RETRIES, Forever}
    /\ expected_total = IF fetcher \in {"build_geojson", "enrich_geojson",
                                        "enrich_batch"}
                        THEN svc.hits ELSE 0 - 1
    /\ max_features \in IF fetcher = "download_bag"
                        THEN {NoMax, PAGE_SIZE + 500} ELSE {NoMax}
    /\ pc = IF fetcher = "build_bag" THEN "count" ELSE "loop"
    /\ start = 0
    /\ all_features = <<>>
    /\ reqlog = <<>>
    /\ bag_file \in IF fetcher = "build_bag" THEN {NoFile, PrevBagFile}
                    ELSE {NoFile}
    /\ ResolveIdle
    /\ EnrichIdle
    /\ PureIdle

NextFetch ==
    \/ DownloadFeaturesPage
    \/ DownloadStatsPage
    \/ FetchBatchPage
    \/ BagDownloadPage
    \/ BagRetry
    \/ SaveGeojson
    \/ BuildGemeenteCount
    \/ BuildGemeentePage
    \/ BuildGemeenteWrite

SpecFetch == InitFetch /\ [][NextFetch]_vars

\* between two requests of a download the service comes to hold its rows in
\* another order
Reshuffle ==
    /\ pc = "loop"
    /\ svc' = [svc EXCEPT !.order = IF svc.order = "id" THEN "other" ELSE "id"]
    /\ UNCHANGED <<failsLeft, fetcher, expected_total, max_features, pc,
                   start, all_features, reqlog, bag_file>>
    /\ UNCHANGED nonFetchVars

NextOrder == NextFetch \/ Reshuffle

SpecOrder == InitFetch /\ [][NextOrder]_vars

\* the loops are sequential code: a function that can take a step takes it
FairSpecFetch == SpecFetch /\ WF_vars(NextFetch)

(***************************************************************************)
(* Properties of the pagination loops (SpecFetch)                          *)
(***************************************************************************)
NoRequestErrors == svc.failAt < 0

ListFetchers == {"build_geojson", "enrich_geojson"}

\* C1: with a stable order, a ceiling of 1000 and no request errors,
\* download_features and download_stats_only ask at offsets 0, 1000, 2000,
\* ... and return each of the N records exactly once; N = 2500 takes
\* exactly the three requests 0, 1000, 2000.
C1_PaginationComplete ==
    (fetcher \in ListFetchers /\ NoRequestErrors) =>
        /\ \A i \in 1..Len(reqlog) : reqlog[i] = (i - 1) * PAGE_SIZE
        /\ pc = "returned" =>
              /\ Len(all_features) = svc.n
              /\ Range(all_features) = 1..svc.n
              /\ svc.n = 2 * PAGE_SIZE + 500 =>
                    reqlog = <<0, PAGE_SIZE, 2 * PAGE_SIZE>>

C1_Witness ==
    /\ fetcher \in ListFetchers
    /\ NoRequestErrors
    /\ pc = "returned"
    /\ svc.n = 2 * PAGE_SIZE + 500
    /\ Len(reqlog) = 3
    /\ Len(all_features) = 2 * PAGE_SIZE + 500

\* C6: fetch_batch returns an entry for each of the N codes, also when
\* N exceeds the service's ceiling of 1000 records per request.
C6_FetchBatchComplete ==
    (fetcher = "enrich_batch" /\ NoRequestErrors /\ pc = "returned") =>
        Range(all_features) = 1..svc.n

\* C20: also when the service's row order changes between the requests of a
\* download, the pages a fetcher has received hold no record twice (and so,
\* with as many records received as asked for, skip none).
C20_PagesDisjoint ==
    pc = "loop" => Cardinality(Range(all_features)) = start

FirstPageFailed ==
    /\ fetcher = "build_bag"
    /\ pc \in {"clean", "returned"}
    /\ expected_total > 0
    /\ Len(all_features) = 0

\* C8: when the first page cannot be fetched after all retries,
\* build_gemeente writes no bag_<code>.geojson, so the file on disk stays
\* what it was.
C8_FirstPageFailureWritesNothing ==
    [][FirstPageFailed => bag_file' = bag_file]_vars

\* C9: download_features and download_stats_only raise only for a failure
\* of the first page; after a failure of a later page the pages already
\* fetched are returned.
C9_LaterFailureReturnsPartial ==
    (fetcher \in ListFetchers /\ pc = "raised") => start = 0

(***************************************************************************)
(* build_geojson.resolve_fields.  Attribute names are strings over a       *)
(* small alphabet with both letter cases; PDOK_FIELDS keeps the shape of   *)
(* the source table: keys with one candidate and a key with two.           *)
(***************************************************************************)
Chars == {"a", "A", "b", "B"}

Names == UNION {[1..n -> Chars] : n \in 1..MaxNameLen}

PDOK_FIELDS ==
    [aantal_inwoners     |-> << <<"B">> >>,
     gem_inkomen_inwoner |-> << <<"a">>, <<"b">> >>]

NoName == <<>>

lower(c) == IF c = "A" THEN "a" ELSE IF c = "B" THEN "b" ELSE c

\* str.lower()
Lower(s) == [i \in 1..Len(s) |-> lower(s[i])]

\* needle in hay, for strings
Contains(needle, hay) ==
    \E i \in 0..(Len(hay) - Len(needle)) :
        SubSeq(hay, i + 1, i + Len(needle)) = needle

\* name in available, for a list
InList(name, avail) == \E i \in 1..Len(avail) : avail[i] = name

Highest(S) == CHOOSE i \in S : \A j \in S : j <= i

Lowest(S) == CHOOSE i \in S : \A j \in S : i <= j

\* avail_lower = {f.lower(): f for f in available}; a later name with the
\* same lower-case form replaces an earlier one
InAvailLower(avail, low) == \E i \in 1..Len(avail) : Lower(avail[i]) = low

AvailLower(avail, low) ==
    avail[Highest({i \in 1..Len(avail) : Lower(avail[i]) = low})]

\* the first loop over pdok_names: exact name, else lower-case form
RECURSIVE StrictMatch(_, _, _)
StrictMatch(pdok_names, avail, i) ==
    IF i > Len(pdok_names) THEN NoName
    ELSE IF InList(pdok_names[i], avail) THEN pdok_names[i]
    ELSE IF InAvailLower(avail, Lower(pdok_names[i]))
    THEN AvailLower(avail, Lower(pdok_names[i]))
    ELSE StrictMatch(pdok_names, avail, i + 1)

\* a substring test that forgets to fold the case
FuzzyHitCaseSensitive(pdok_name, af) == Contains(pdok_name, af)

\* pdok_name.lower() in af.lower()
FuzzyHit(pdok_name, af) == Contains(Lower(pdok_name), Lower(af))

\* for af in available: the first name containing the candidate
RECURSIVE FuzzyIn(_, _, _)
FuzzyIn(pdok_name, avail, j) ==
    IF j > Len(avail) THEN NoName
    ELSE IF FuzzyHit(pdok_name, avail[j]) THEN avail[j]
    ELSE FuzzyIn(pdok_name, avail, j + 1)

\* the else branch of the first loop: "Fuzzy match: zoek of het ergens in zit"
RECURSIVE FuzzyMatch(_, _, _)
FuzzyMatch(pdok_names, avail, i) ==
    IF i > Len(pdok_names) THEN NoName
    ELSE IF FuzzyIn(pdok_names[i], avail, 1) # NoName
    THEN FuzzyIn(pdok_names[i], avail, 1)
    ELSE FuzzyMatch(pdok_names, avail, i + 1)

ResolveKey(pdok_names, avail) ==
    IF StrictMatch(pdok_names, avail, 1) # NoName
    THEN StrictMatch(pdok_names, avail, 1)
    ELSE FuzzyMatch(pdok_names, avail, 1)

resolve_fields(avail) ==
    LET found == {k \in DOMAIN PDOK_FIELDS :
                      ResolveKey(PDOK_FIELDS[k], avail) # NoName}
    IN  [k \in found |-> ResolveKey(PDOK_FIELDS[k], avail)]

\* Stap 2 of build_year / Stap 3 of enrich_year
ResolveFields ==
    /\ pc = "resolve"
    /\ field_map' = resolve_fields(available)
    /\ pc' = "resolved"
    /\ UNCHANGED <<available, fetchVarsNoPc, enrichVars>>

(***************************************************************************)
(* SpecResolve: resolve_fields applied to every list of distinct names.    *)
(***************************************************************************)
NameLists ==
    {l \in UNION {[1..n -> Names] : n \in 0..MaxAvail} :
        \A i, j \in 1..Len(l) : i # j => l[i] # l[j]}

InitResolve ==
    /\ FetchIdle
    /\ EnrichIdle
    /\ PureIdle
    /\ pc = "resolve"
    /\ available \in NameLists
    /\ field_map = <<>>

NextResolve == ResolveFields

SpecResolve == InitResolve /\ [][NextResolve]_vars

(***************************************************************************)
(* The same names in another order: discover_fields lists the property     *)
(* keys of the first feature in the order the service sends them.          *)
(***************************************************************************)
\* the lists that hold the names of avail, each once
Reorderings(avail) ==
    {l \in [1..Len(avail) -> Range(avail)] : Range(l) = Range(avail)}

\* the service sends the same attributes in another order
Reorder ==
    /\ pc = "resolved"
    /\ \E l \in Reorderings(available) :
        /\ l # available
        /\ available' = l
    /\ pc' = "reordered"
    /\ UNCHANGED <<field_map, fetchVarsNoPc, enrichVars>>

\* resolve_fields called on the reordered list
ResolveReordered ==
    /\ pc = "reordered"
    /\ field_map' = resolve_fields(available)
    /\ pc' = "resolved again"
    /\ UNCHANGED <<available, fetchVarsNoPc, enrichVars>>

\* two attribute names, the least that can be listed in two orders
InitReorder ==
    /\ InitResolve
    /\ Len(available) = 2

NextReorder == ResolveFields \/ Reorder \/ ResolveReordered

SpecReorder == InitReorder /\ [][NextReorder]_vars

\* C19: resolve_fields called on the same names listed in another order
\* returns the mapping it returned before, for every logical key.
C19_OrderIndependent ==
    [][pc = "reordered" => field_map' = field_map]_vars

(***************************************************************************)
(* Properties of resolve_fields (SpecResolve)                              *)
(***************************************************************************)
\* the resolver of the specification text: each candidate in turn is tried
\* by exact name, else case-insensitively, else as a substring
RefCandidate(pdok_name, avail) ==
    IF InList(pdok_name, avail) THEN pdok_name
    ELSE IF InAvailLower(avail, Lower(pdok_name))
    THEN AvailLower(avail, Lower(pdok_name))
    ELSE FuzzyIn(pdok_name, avail, 1)

RefKey(pdok_names, avail) ==
    LET ok == {i \in 1..Len(pdok_names) :
                  RefCandidate(pdok_names[i], avail) # NoName}
    IN  IF ok = {} THEN NoName
        ELSE RefCandidate(pdok_names[Lowest(ok)], avail)

RefResolve(avail) ==
    LET found == {k \in DOMAIN PDOK_FIELDS : RefKey(PDOK_FIELDS[k], avail) # NoName}
    IN  [k \in found |-> RefKey(PDOK_FIELDS[k], avail)]

\* C5 as stated: resolve_fields equals the per-candidate resolver (first
\* candidate that succeeds by exact, else case-insensitive, else substring
\* match decides).
C5_EqualsReference ==
    pc = "resolved" => field_map = RefResolve(available)

\* C5 as amended: the candidates are first tried in list order by exact
\* name and by case-insensitive equality; only when no candidate of the key
\* matches that way are they tried in list order as case-insensitive
\* substrings, the first available name containing the candidate being
\* taken; a key without any match is left out of the mapping.
C5_TwoPassResolution ==
    pc = "resolved" =>
        \A k \in DOMAIN PDOK_FIELDS :
            LET cands == PDOK_FIELDS[k]
                names == 1..Len(available)
                same(i, j) == Lower(available[j]) = Lower(cands[i])
                inside(i, j) == Contains(Lower(cands[i]), Lower(available[j]))
                S == {i \in 1..Len(cands) : \E j \in names : same(i, j)}
                F == {i \in 1..Len(cands) : \E j \in names : inside(i, j)}
            IN  IF S # {}
                THEN /\ k \in DOMAIN field_map
                     /\ InList(field_map[k], available)
                     /\ Lower(field_map[k]) = Lower(cands[Lowest(S)])
                     /\ InList(cands[Lowest(S)], available)
                            => field_map[k] = cands[Lowest(S)]
                ELSE IF F # {}
                THEN /\ k \in DOMAIN field_map
                     /\ field_map[k] =
                            available[Lowest({j \in names : inside(Lowest(F), j)})]
                ELSE k \notin DOMAIN field_map

\* the second candidate matches exactly while the first is only a
\* substring of another name: the exact match wins
C5_Witness ==
    /\ pc = "resolved"
    /\ available = << <<"A", "a">>, <<"b">> >>
    /\ "gem_inkomen_inwoner" \in DOMAIN field_map
    /\ field_map["gem_inkomen_inwoner"] = <<"b">>

(***************************************************************************)
(* Build and enrichment passes over one file, gemeenten_<year>.geojson.    *)
(*                                                                         *)
(* A property value is a set: {} for an absent key (or a null), {v} for    *)
(* the number v.  A feature is [code, naam, geom, ind]: its gemeentecode,  *)
(* its gemeentenaam, its geometry and its indicator properties.  A remote  *)
(* record is [code, naam, vals]: vals gives the value of each attribute in *)
(* `available`.                                                            *)
(***************************************************************************)
SENTINEL == 0 - 99999     \* the CBS/PDOK marker for "no data"
MISSING_MAX == 0 - 99990  \* clean_value drops numbers at or below this
HEAD == 10                \* enrich_year looks at features[:10]
BATCH_SIZE == 15          \* enrich_batch: properties per request

AppKeys == DOMAIN PDOK_FIELDS

\* PDOK_FIELDS.items() / field_map.items() iterate in insertion order
KeyOrder == <<"aantal_inwoners", "gem_inkomen_inwoner">>

\* keys written by enrich_from_sql (bodemgebruik, landbouw) and by
\* enrich_flora_fauna; a few of each stand for the whole family
BbgKeys == {"bbg_peiljaar", "pct_bebouwd"}

LbtKeys == {"lbt_totaal_rundvee"}

FFKeys == {"ff_totaal_soorten", "ff_soorten_vogels"}

IndKeys == AppKeys \cup BbgKeys \cup LbtKeys \cup FFKeys

ADMIN_FIELDS == {"gemeentecode", "gemeentenaam"}

\* a clean_value whose comparison is strict and set at the marker itself
clean_value_strict(val) ==
    IF val = {} THEN {}
    ELSE IF \E v \in val : v < SENTINEL THEN {}
    ELSE val

\* build_geojson.clean_value
clean_value(val) ==
    IF val = {} THEN {}
    ELSE IF \E v \in val : v <= MISSING_MAX THEN {}
    ELSE val

\* props.get(pdok_field)
Get(vals, pdok_field) ==
    IF pdok_field \in DOMAIN vals THEN vals[pdok_field] ELSE {}

NoInd == [k \in IndKeys |-> {}]

\* the keys of a feature's properties
PropKeys(f) ==
    {"gemeentecode"}
        \cup (IF f.naam = {} THEN {} ELSE {"gemeentenaam"})
        \cup {k \in IndKeys : f.ind[k] # {}}

\* a metadata block whose count is the number of features with data
BuildMetaDataCount(features, inds) ==
    [generated |-> now,
     count |-> Cardinality({i \in 1..Len(features) :
                  Cardinality(PropKeys(features[i]))
                      > Cardinality(ADMIN_FIELDS)}),
     with_data |-> Cardinality({i \in 1..Len(features) :
                      Cardinality(PropKeys(features[i]))
                          > Cardinality(ADMIN_FIELDS)}),
     indicators |-> inds,
     indicators_count |-> Cardinality(inds),
     bbg_peiljaar |-> {},
     gbif_source |-> FALSE]

\* the metadata block build_year writes
BuildMeta(features, inds) ==
    [generated |-> now,
     count |-> Len(features),
     with_data |-> Cardinality({i \in 1..Len(features) :
                      Cardinality(PropKeys(features[i]))
                          > Cardinality(ADMIN_FIELDS)}),
     indicators |-> inds,
     indicators_count |-> Cardinality(inds),
     bbg_peiljaar |-> {},
     gbif_source |-> FALSE]

\* the metadata block enrich_year and enrich_batch.enrich write
EnrichMeta(features, enriched, inds) ==
    [generated |-> now,
     count |-> Len(features),
     with_data |-> enriched,
     indicators |-> inds,
     indicators_count |-> Cardinality(inds),
     bbg_peiljaar |-> {},
     gbif_source |-> FALSE]

Doc(features, metadata) ==
    [st |-> "ok", features |-> features, metadata |-> metadata]

\* a record of the remote layer without its identifier (missing or "")
NoCode == 0

\* geometry: null
NoGeometry == [of |-> 0, version |-> 0]

\* the places of the remote layer in the service's order; the record at
\* place c carries the code c, if it carries one
RemoteCodes == {c \in 1..MaxFeatures : c \in DOMAIN remote}

\* fid = props.get(id_field, ""); if fid: the records a statistics
\* download keeps
Identified == {c \in RemoteCodes : remote[c].code # NoCode}

RECURSIVE SortedCodes(_)
SortedCodes(S) ==
    IF S = {} THEN <<>>
    ELSE <<Lowest(S)>> \o SortedCodes(S \ {Lowest(S)})

\* the field mapping of a run: resolve_fields(discover_fields(...))
FieldMap == resolve_fields(available)

(***************************************************************************)
(* build_geojson.build_year                                                *)
(***************************************************************************)
BuildFeature(rec, fmap) ==
    [code |-> rec.code,
     naam |-> rec.naam,
     geom |-> IF rec.geometry THEN [of |-> rec.code, version |-> 1]
              ELSE NoGeometry,
     ind |-> [k \in IndKeys |->
                 IF k \in DOMAIN fmap
                 THEN clean_value(Get(rec.vals, fmap[k]))
                 ELSE {}]]

\* the clean loop of build_year without its `continue`
BuildFeaturesKeepsAll(fmap) ==
    LET codes == SortedCodes(RemoteCodes)
    IN  [i \in 1..Len(codes) |-> BuildFeature(remote[codes[i]], fmap)]

\* if not props.get(id_field) or not geom: continue
BuildFeatures(fmap) ==
    LET codes == SelectSeq(SortedCodes(RemoteCodes),
                           LAMBDA c : remote[c].code # NoCode
                                          /\ remote[c].geometry)
    IN  [i \in 1..Len(codes) |-> BuildFeature(remote[codes[i]], fmap)]

WithData(features) ==
    {k \in IndKeys : \E i \in 1..Len(features) : features[i].ind[k] # {}}

\* a run starts: it loads the file, if it reads it at all
StartRun ==
    /\ pc = "idle"
    /\ runs < MaxRuns
    /\ runs' = runs + 1
    /\ before' = disk

\* open(output, "w") truncates the file; json.dump then writes the document
OpenForWrite(doc) ==
    /\ disk' = [st |-> "partial", features |-> <<>>, metadata |-> NoMeta]
    /\ pending' = doc
    /\ pc' = "writing"

\* a run that ends without reaching the write
NoWrite ==
    /\ pc' = "failed"
    /\ UNCHANGED <<disk, pending>>

\* ok = FALSE: discover_fields, count_total or download_features raised
BuildYear ==
    /\ StartRun
    /\ \E ok \in BOOLEAN :
        IF ~ok
        THEN /\ NoWrite
             /\ last' = [NoPass EXCEPT !.name = "build_year"]
        ELSE LET features == BuildFeatures(FieldMap)
             IN  /\ OpenForWrite(Doc(features,
                                     BuildMeta(features, WithData(features))))
                 /\ last' = [NoPass EXCEPT !.name = "build_year",
                                            !.ok = TRUE,
                                            !.wrote = TRUE,
                                            !.fetched = RemoteCodes]
    /\ UNCHANGED <<available, field_map, remote, cache, histVars, pureVars,
                   fetchVarsNoPc>>

(***************************************************************************)
(* enrich_geojson.enrich_year                                              *)
(***************************************************************************)
\* fid and fid in stats_data
Matches(f, stats) == f.code \in DOMAIN stats

\* the inner loop of the merge: every resolved key with a value
ApplyYear(f, vals, fmap) ==
    [f EXCEPT !.ind =
        [k \in IndKeys |->
            IF k \in DOMAIN fmap /\ clean_value(Get(vals, fmap[k])) # {}
            THEN clean_value(Get(vals, fmap[k]))
            ELSE f.ind[k]]]

\* a merge that keeps only the features it has a record for
MergeYearMatched(features, stats, fmap) ==
    LET kept == SelectSeq(features, LAMBDA f : f.code \in DOMAIN stats)
    IN  [i \in 1..Len(kept) |-> ApplyYear(kept[i], stats[kept[i].code], fmap)]

MergeYear(features, stats, fmap) ==
    [i \in 1..Len(features) |->
        IF Matches(features[i], stats)
        THEN ApplyYear(features[i], stats[features[i].code], fmap)
        ELSE features[i]]

\* enriched += 1
EnrichedCount(features, stats) ==
    Cardinality({i \in 1..Len(features) : Matches(features[i], stats)})

IndicatorsYear(features, stats, fmap) ==
    {k \in DOMAIN fmap :
        \E i \in 1..Len(features) :
            /\ Matches(features[i], stats)
            /\ clean_value(Get(stats[features[i].code], fmap[k])) # {}}

\* the keys found in features[:10]
ExistingKeys(features) ==
    UNION {PropKeys(features[i]) : i \in 1..Min(HEAD, Len(features))}

\* the result of download_stats_only: code -> properties
StatsData == [c \in Identified |-> remote[c].vals]

\* ok = FALSE: discover_fields, count_total or download_stats_only raised
EnrichYear ==
    /\ StartRun
    /\ \E ok \in BOOLEAN :
        LET fmap == FieldMap
            new_fields == {k \in DOMAIN fmap : k \notin ExistingKeys(disk.features)}
            features == MergeYear(disk.features, StatsData, fmap)
            enriched == EnrichedCount(disk.features, StatsData)
            inds == IndicatorsYear(disk.features, StatsData, fmap)
        IN  IF disk.st # "ok" \/ ~ok \/ new_fields = {}
            THEN /\ NoWrite
                 /\ last' = [NoPass EXCEPT !.name = "enrich_year",
                                            !.ok = (disk.st = "ok" /\ ok)]
            ELSE /\ OpenForWrite(Doc(features,
                                     EnrichMeta(features, enriched, inds)))
                 /\ last' = [NoPass EXCEPT !.name = "enrich_year",
                                            !.ok = TRUE,
                                            !.wrote = TRUE,
                                            !.fetched = DOMAIN StatsData,
                                            !.enriched = enriched]
    /\ UNCHANGED <<available, field_map, remote, cache, histVars, pureVars,
                   fetchVarsNoPc>>

(***************************************************************************)
(* enrich_batch.enrich                                                     *)
(***************************************************************************)
\* list(field_map.values())
FieldList(fmap) ==
    LET keys == SelectSeq(KeyOrder, LAMBDA k : k \in DOMAIN fmap)
    IN  [i \in 1..Len(keys) |-> fmap[keys[i]]]

\* the slices pdok_fields_list[i:i+BATCH_SIZE]
BatchCount(fields) == (Len(fields) + BATCH_SIZE - 1) \div BATCH_SIZE

Batch(fields, b) ==
    SubSeq(fields, (b - 1) * BATCH_SIZE + 1, Min(b * BATCH_SIZE, Len(fields)))

\* all_stats after the batches in `done` were fetched and the others failed
AllStats(fields, done) ==
    LET got == UNION {Range(Batch(fields, b)) : b \in done}
    IN  IF done = {} THEN <<>>
        ELSE [c \in Identified |->
                 [pf \in got \cap DOMAIN remote[c].vals |-> remote[c].vals[pf]]]

\* reverse_map = {v: k for k, v in field_map.items()}: the last key wins
ReverseMap(fmap, pdok_field) ==
    LET at == {i \in 1..Len(KeyOrder) :
                  /\ KeyOrder[i] \in DOMAIN fmap
                  /\ fmap[KeyOrder[i]] = pdok_field}
    IN  KeyOrder[Highest(at)]

ApplyBatch(f, vals, fmap) ==
    [f EXCEPT !.ind =
        [k \in IndKeys |->
            IF /\ k \in DOMAIN fmap
               /\ fmap[k] \in DOMAIN vals
               /\ ReverseMap(fmap, fmap[k]) = k
               /\ clean_value(vals[fmap[k]]) # {}
            THEN clean_value(vals[fmap[k]])
            ELSE f.ind[k]]]

MergeBatch(features, stats, fmap) ==
    [i \in 1..Len(features) |->
        IF Matches(features[i], stats)
        THEN ApplyBatch(features[i], stats[features[i].code], fmap)
        ELSE features[i]]

IndicatorsBatch(features, stats, fmap) ==
    {k \in DOMAIN fmap :
        \E i \in 1..Len(features) :
            /\ Matches(features[i], stats)
            /\ ApplyBatch([features[i] EXCEPT !.ind = NoInd],
                          stats[features[i].code], fmap).ind[k] # {}}

\* started = FALSE: discover_fields or count_total raised; done: the batches
\* whose fetch_batch call did not raise
EnrichBatch ==
    /\ StartRun
    /\ \E started \in BOOLEAN :
       \E done \in IF started THEN SUBSET (1..BatchCount(FieldList(FieldMap)))
                   ELSE {{}} :
        LET fmap == FieldMap
            stats == AllStats(FieldList(fmap), done)
            features == MergeBatch(disk.features, stats, fmap)
            enriched == EnrichedCount(disk.features, stats)
            inds == IndicatorsBatch(disk.features, stats, fmap)
        IN  IF disk.st # "ok" \/ ~started
            THEN /\ NoWrite
                 /\ last' = [NoPass EXCEPT !.name = "enrich_batch"]
            ELSE /\ OpenForWrite(Doc(features,
                                     EnrichMeta(features, enriched, inds)))
                 /\ last' = [NoPass EXCEPT !.name = "enrich_batch",
                                            !.ok = TRUE,
                                            !.input.done = done,
                                            !.wrote = TRUE,
                                            !.fetched = DOMAIN stats,
                                            !.enriched = enriched]
    /\ UNCHANGED <<available, field_map, remote, cache, histVars, pureVars,
                   fetchVarsNoPc>>

(***************************************************************************)
(* enrich_from_sql.enrich_file                                             *)
(***************************************************************************)
YEAR == 2022              \* the year in the file's name

\* the names of the model in lower case
LowerNaam(naam) ==
    CASE naam = "Utrecht" -> "utrecht"
      [] naam = "Epe" -> "epe"
      [] OTHER -> ""

\* enrich_from_sql.normalize_naam on the names of the model, none of which
\* carries a suffix; "" for a feature without a name
sql_normalize_naam(naam) ==
    IF naam = {} THEN "" ELSE LowerNaam(CHOOSE n \in naam : TRUE)

\* find_nearest_peiljaar over the peiljaren of bbg_data; {} stands for None
find_nearest_peiljaar(bbg_data) ==
    LET candidates == {k[2] : k \in {j \in DOMAIN bbg_data : j[2] <= YEAR}}
    IN  IF candidates = {} THEN {} ELSE {Highest(candidates)}

\* bbg_data.get((naam_key, nearest_pj)); <<>> stands for no row
BbgRow(cbs, naam_key) ==
    LET pj == find_nearest_peiljaar(cbs.bbg)
    IN  IF /\ "bodemgebruik" \in cbs.domains
           /\ pj # {}
           /\ \E y \in pj : <<naam_key, y>> \in DOMAIN cbs.bbg
        THEN cbs.bbg[<<naam_key, Highest(pj)>>]
        ELSE <<>>

\* the years tried for landbouw: the file's own, then -1, +1, -2, +2
LbtOffsets == <<0, 0 - 1, 1, 0 - 2, 2>>

LbtRow(cbs, naam_key) ==
    LET found == {i \in 1..Len(LbtOffsets) :
                     <<naam_key, YEAR + LbtOffsets[i]>> \in DOMAIN cbs.lbt}
    IN  IF "landbouw" \in cbs.domains /\ found # {}
        THEN cbs.lbt[<<naam_key, YEAR + LbtOffsets[Lowest(found)]>>]
        ELSE <<>>

\* props[key] = val for every key of the row whose value is not None
ApplyRow(f, row) ==
    [f EXCEPT !.ind =
        [k \in IndKeys |->
            IF k \in DOMAIN row /\ row[k] # {} THEN row[k] ELSE f.ind[k]]]

\* the body of the merge loop for one feature
ApplySql(f, cbs) ==
    IF f.naam = {} THEN f
    ELSE ApplyRow(ApplyRow(f, BbgRow(cbs, sql_normalize_naam(f.naam))),
                  LbtRow(cbs, sql_normalize_naam(f.naam)))

\* any_added: some row gave the feature a value
EnrichedSql(features, cbs) ==
    Cardinality({i \in 1..Len(features) :
        ApplySql([features[i] EXCEPT !.ind = NoInd], cbs).ind # NoInd})

\* the gemeenten the CBS tables hold a row for
CbsNames(cbs) == {k[1] : k \in DOMAIN cbs.bbg \cup DOMAIN cbs.lbt}

MergeSql(features, cbs) ==
    [i \in 1..Len(features) |-> ApplySql(features[i], cbs)]

\* indicators_with_data: every key set on some feature but bbg_peiljaar
IndicatorsSql(features, cbs) ==
    {k \in (BbgKeys \cup LbtKeys) \ {"bbg_peiljaar"} :
        \E i \in 1..Len(features) :
            ApplySql([features[i] EXCEPT !.ind = NoInd], cbs).ind[k] # {}}

\* meta = geojson.get("metadata", {}) with the indicators added
SqlMeta(meta, inds, cbs) ==
    [meta EXCEPT
        !.indicators = meta.indicators \cup inds,
        !.indicators_count = Cardinality(meta.indicators \cup inds),
        !.bbg_peiljaar =
            IF find_nearest_peiljaar(cbs.bbg) # {}
               /\ "bodemgebruik" \in cbs.domains
            THEN find_nearest_peiljaar(cbs.bbg)
            ELSE meta.bbg_peiljaar]

BbgRowOf(pj, pct) == [bbg_peiljaar |-> {pj}, pct_bebouwd |-> {pct}]

\* to_num on the whole numbers of the model: None stays None and n comes
\* back as int(n); there is no test against the missing-value sentinel
to_num(v) == v

\* the row fetch_landbouw keeps for a CBS row that has data in some column
LbtRowOf(rundvee) == [lbt_totaal_rundvee |-> to_num(rundvee)]

\* what main hands to enrich_file: the two CBS tables and --domains
CbsData ==
    {[bbg |-> (<<"utrecht", 2017>> :> BbgRowOf(2017, 40)),
      lbt |-> (<<"utrecht", 2022>> :> LbtRowOf({4})),
      domains |-> {"bodemgebruik", "landbouw"}],
     [bbg |-> <<>>,
      lbt |-> (<<"utrecht", 2021>> :> LbtRowOf({6}))
                  @@ (<<"utrecht", 2023>> :> LbtRowOf({8})),
      domains |-> {"landbouw"}],
     [bbg |-> (<<"epe", 2017>> :> BbgRowOf(2017, 20))
                  @@ (<<"utrecht", 2025>> :> BbgRowOf(2025, 45)),
      lbt |-> (<<"utrecht", 2022>> :> LbtRowOf({}))
                  @@ (<<"epe", 2022>> :> LbtRowOf({SENTINEL})),
      domains |-> {"bodemgebruik", "landbouw"}]}

EnrichSql ==
    /\ StartRun
    /\ \E cbs \in CbsData :
        LET features == MergeSql(disk.features, cbs)
            inds == IndicatorsSql(disk.features, cbs)
            enriched == EnrichedSql(disk.features, cbs)
        IN  IF disk.st # "ok" \/ inds = {}
            THEN /\ NoWrite
                 /\ last' = [NoPass EXCEPT !.name = "enrich_sql",
                                            !.ok = (disk.st = "ok"),
                                            !.input.cbs = cbs]
            ELSE /\ OpenForWrite(Doc(features,
                                     SqlMeta(disk.metadata, inds, cbs)))
                 /\ last' = [NoPass EXCEPT !.name = "enrich_sql",
                                            !.ok = TRUE,
                                            !.input.cbs = cbs,
                                            !.wrote = TRUE,
                                            !.names = CbsNames(cbs),
                                            !.enriched = enriched]
    /\ UNCHANGED <<available, field_map, remote, cache, histVars, pureVars,
                   fetchVarsNoPc>>

(***************************************************************************)
(* enrich_flora_fauna.enrich_file                                          *)
(***************************************************************************)
\* enrich_flora_fauna.normalize_naam on the names of the model
ff_normalize_naam(naam) ==
    IF naam = {} THEN "" ELSE LowerNaam(CHOOSE n \in naam : TRUE)

\* the normalized names of the file's gemeenten
GemeenteNamen(features) ==
    {ff_normalize_naam(features[i].naam) :
        i \in {j \in 1..Len(features) : features[j].naam # {}}}

\* the gemeenten whose counts are fetched in this run: not taken from the
\* cache, and present in the GADM mapping
NewFetched(features, gbif, skip_cached) ==
    {n \in GemeenteNamen(features) :
        /\ ~(skip_cached /\ n \in DOMAIN cache)
        /\ n \in DOMAIN gbif}

\* ff_data after the fetch loop
FFData(features, gbif, skip_cached) ==
    [n \in {m \in GemeenteNamen(features) :
               \/ skip_cached /\ m \in DOMAIN cache
               \/ m \in DOMAIN gbif} |->
        IF skip_cached /\ n \in DOMAIN cache THEN cache[n] ELSE gbif[n]]

\* cache[norm] = data for every fetched gemeente, saved if there is one;
\* under --no-cache the dict that is saved started empty
CacheAfter(features, gbif, skip_cached) ==
    LET new == NewFetched(features, gbif, skip_cached)
        kept == IF skip_cached THEN DOMAIN cache ELSE {}
    IN  IF new = {} THEN cache
        ELSE [n \in kept \cup new |-> IF n \in new THEN gbif[n] ELSE cache[n]]

\* a merge that adds the fetched count to the count the feature holds
ApplyFloraAdditive(f, ff_data) ==
    IF f.naam = {} \/ ff_normalize_naam(f.naam) \notin DOMAIN ff_data THEN f
    ELSE [f EXCEPT !.ind =
            [k \in IndKeys |->
                IF k \in FFKeys /\ ff_data[ff_normalize_naam(f.naam)][k] > 0
                THEN IF f.ind[k] = {}
                     THEN {ff_data[ff_normalize_naam(f.naam)][k]}
                     ELSE {ff_data[ff_normalize_naam(f.naam)][k]
                           + (CHOOSE x \in f.ind[k] : TRUE)}
                ELSE f.ind[k]]]

\* props[key] = val for every key of the row with val > 0
ApplyFlora(f, ff_data) ==
    IF f.naam = {} \/ ff_normalize_naam(f.naam) \notin DOMAIN ff_data THEN f
    ELSE [f EXCEPT !.ind =
            [k \in IndKeys |->
                IF k \in FFKeys /\ ff_data[ff_normalize_naam(f.naam)][k] > 0
                THEN {ff_data[ff_normalize_naam(f.naam)][k]}
                ELSE f.ind[k]]]

EnrichedFlora(features, ff_data) ==
    Cardinality({i \in 1..Len(features) :
        ApplyFlora([features[i] EXCEPT !.ind = NoInd], ff_data).ind # NoInd})

MergeFlora(features, ff_data) ==
    [i \in 1..Len(features) |-> ApplyFlora(features[i], ff_data)]

IndicatorsFlora(features, ff_data) ==
    {k \in FFKeys :
        \E i \in 1..Len(features) :
            ApplyFlora([features[i] EXCEPT !.ind = NoInd], ff_data).ind[k] # {}}

FloraMeta(meta, inds) ==
    [meta EXCEPT
        !.indicators = meta.indicators \cup inds,
        !.indicators_count = Cardinality(meta.indicators \cup inds),
        !.gbif_source = TRUE]

\* fetch_gemeente_data: the counts of one gemeente, 0 where the request
\* failed
FFRow(soorten, vogels) ==
    [ff_totaal_soorten |-> soorten, ff_soorten_vogels |-> vogels]

\* the GADM gemeenten and what GBIF answers for them in a run
GbifAnswers ==
    {("utrecht" :> FFRow(7, 2)),
     ("utrecht" :> FFRow(0, 0)),
     ("utrecht" :> FFRow(7, 0)) @@ ("epe" :> FFRow(9, 2))}

\* skip_cached = FALSE: --no-cache, where main starts from an empty dict
EnrichFlora ==
    /\ StartRun
    /\ \E gbif \in GbifAnswers, skip_cached \in BOOLEAN :
        LET ff_data == FFData(disk.features, gbif, skip_cached)
            features == MergeFlora(disk.features, ff_data)
            inds == IndicatorsFlora(disk.features, ff_data)
            enriched == EnrichedFlora(disk.features, ff_data)
        IN  IF disk.st # "ok"
            THEN /\ NoWrite
                 /\ cache' = cache
                 /\ last' = [NoPass EXCEPT !.name = "enrich_flora"]
            ELSE /\ cache' = CacheAfter(disk.features, gbif, skip_cached)
                 /\ IF inds = {}
                    THEN /\ NoWrite
                         /\ last' = [NoPass EXCEPT
                                        !.name = "enrich_flora",
                                        !.ok = TRUE,
                                        !.input.gbif = gbif,
                                        !.input.skip_cached = skip_cached]
                    ELSE /\ OpenForWrite(Doc(features,
                                             FloraMeta(disk.metadata, inds)))
                         /\ last' = [NoPass EXCEPT
                                        !.name = "enrich_flora",
                                        !.ok = TRUE,
                                        !.input.gbif = gbif,
                                        !.input.skip_cached = skip_cached,
                                        !.wrote = TRUE,
                                        !.names = DOMAIN ff_data,
                                        !.enriched = enriched]
    /\ UNCHANGED <<available, field_map, remote, histVars, pureVars, fetchVarsNoPc>>

(***************************************************************************)
(* The end of a run.  geojson, the field mapping and the counters are      *)
(* locals of the process and go with it.                                   *)
(***************************************************************************)
EndOfRun ==
    /\ pc' = "idle"
    /\ pending' = NoGeo
    /\ before' = NoGeo
    /\ last' = NoPass
    /\ prev' = IF prev.name # "none" /\ prev.run < runs THEN Compared ELSE prev
    /\ UNCHANGED <<available, field_map, remote, cache, runs, now, pureVars,
                   fetchVarsNoPc>>

\* json.dump has written the last byte and the file is closed
WriteDone ==
    /\ pc = "writing"
    /\ disk' = pending
    /\ EndOfRun

\* the process dies (or the write fails) between open() and the end of dump
WriteCrash ==
    /\ pc = "writing"
    /\ disk' = disk
    /\ EndOfRun

\* the run ended before the write stage
Return ==
    /\ pc = "failed"
    /\ disk' = disk
    /\ EndOfRun

(***************************************************************************)
(* SpecEnrich: passes over one file against one state of the remote layer. *)
(***************************************************************************)
RemoteVals == {{}, {SENTINEL}, {5}}

\* gemeentenaam of the area with this code; area 3 has none
NaamOf(c) == IF c = 3 THEN {} ELSE IF c = 2 THEN {"Epe"} ELSE {"Utrecht"}

\* the records the remote layer can hold for a code: any values for the
\* first area, the value 5 throughout for the others
RemoteRecords(c, attrs) ==
    {[code |-> c, naam |-> NaamOf(c), geometry |-> TRUE, vals |-> v] :
        v \in IF c = 1 THEN [attrs -> RemoteVals]
              ELSE {[a \in attrs |-> {5}]}}

\* the areas of the remote layer: the first k, or all but the first
RemoteAreas == {1..k : k \in 0..MaxFeatures} \cup {2..MaxFeatures}

RemoteLayers(attrs) ==
    UNION {{r \in [S -> UNION {RemoteRecords(c, attrs) : c \in S}] :
               \A c \in S : r[c].code = c} : S \in RemoteAreas}

\* attribute lists under which the two keys resolve to two attributes, to
\* one and the same attribute, or not at all
EnrichAvailables ==
    {<< <<"B">>, <<"a">> >>, << <<"b">> >>, <<>>}

\* files of an earlier build: area i at place i; the first indicator has
\* the value 3 on no feature or on the first feature only
OldFeature(i, v) ==
    [code |-> i, naam |-> NaamOf(i), geom |-> [of |-> i, version |-> 0],
     ind |-> [NoInd EXCEPT !["aantal_inwoners"] = v]]

OldValues(n) ==
    {[i \in 1..n |-> {}],
     [i \in 1..n |-> IF i = 1 THEN {3} ELSE {}]}

InitialFiles ==
    UNION {{Doc([i \in 1..n |-> OldFeature(i, v[i])],
                BuildMeta([i \in 1..n |-> OldFeature(i, v[i])],
                          WithData([i \in 1..n |-> OldFeature(i, v[i])]))) :
               v \in OldValues(n)} : n \in 0..MaxFeatures}

InitEnrich ==
    /\ FetchIdle
    /\ PureIdle
    /\ now = 0
    /\ pc = "idle"
    /\ available \in EnrichAvailables
    /\ field_map = <<>>
    /\ remote \in RemoteLayers(Range(available))
    /\ disk \in InitialFiles \cup {NoGeo}
    /\ pending = NoGeo
    /\ before = NoGeo
    /\ last = NoPass
    /\ cache = <<>>
    /\ runs = 0
    /\ prev = NoPrev

NextEnrich ==
    \/ BuildYear
    \/ EnrichYear
    \/ EnrichBatch
    \/ EnrichSql
    \/ EnrichFlora
    \/ WriteDone
    \/ WriteCrash
    \/ Return

SpecEnrich == InitEnrich /\ [][NextEnrich]_vars

(***************************************************************************)
(* Properties of the passes.  In the state after a run opened the file for *)
(* writing (pc = "writing"), `before` is the document it loaded and        *)
(* `pending` the document it writes.                                       *)
(***************************************************************************)
Enrichers == {"enrich_year", "enrich_batch", "enrich_sql", "enrich_flora"}

PdokWriters == {"build_year", "enrich_year", "enrich_batch"}

\* the run holds no fetched record for feature i of the loaded file
Unmatched(i) ==
    IF last.name \in {"enrich_year", "enrich_batch"}
    THEN before.features[i].code \notin last.fetched
    ELSE \/ before.features[i].naam = {}
         \/ \A n \in before.features[i].naam : LowerNaam(n) \notin last.names

\* C2: an enrichment pass writes the features it loaded, as many and in the
\* same order, each with its code and geometry unchanged, and a feature
\* without a matching fetched record is written exactly as it was loaded;
\* remote records that match no feature add nothing.
C2_EnrichmentFrame ==
    (pc = "writing" /\ last.name \in Enrichers) =>
        /\ Len(pending.features) = Len(before.features)
        /\ \A i \in 1..Len(before.features) :
              /\ i \in DOMAIN pending.features
              /\ pending.features[i].code = before.features[i].code
              /\ pending.features[i].geom = before.features[i].geom
              /\ Unmatched(i) => pending.features[i] = before.features[i]

\* enrich_year over two features with records for areas 2 and 3: feature 2
\* changes, feature 1 does not, and the record of area 3 matches no feature
C2_Witness ==
    /\ pc = "writing"
    /\ last.name = "enrich_year"
    /\ Len(before.features) = 2
    /\ last.fetched = {2, 3}
    /\ pending.features[2] # before.features[2]
    /\ pending.features[1] = before.features[1]

\* the remote value of key k for feature i of the loaded file
RemoteValue(i, k) ==
    IF /\ before.features[i].code \in last.fetched
       /\ before.features[i].code \in DOMAIN remote
       /\ k \in DOMAIN FieldMap
    THEN Get(remote[before.features[i].code].vals, FieldMap[k])
    ELSE {}

\* the pass gave feature i a value
Received(i) ==
    \E k \in AppKeys : clean_value(RemoteValue(i, k)) # {}

\* C3: the count enrich_year and enrich_batch write to metadata.with_data is
\* the number of features that received at least one non-missing value in
\* the pass.
C3_WithDataCountsReceivers ==
    (pc = "writing" /\ last.name \in {"enrich_year", "enrich_batch"}) =>
        pending.metadata.with_data =
            Cardinality({i \in 1..Len(before.features) : Received(i)})

\* C4: no indicator written by build_year, enrich_year or enrich_batch is at
\* or below -99999, and a remote value at or below it leaves the key as it
\* was (absent, in a build).
C4_NoSentinelWritten ==
    (pc = "writing" /\ last.name \in PdokWriters) =>
        \A i \in 1..Len(pending.features) : \A k \in AppKeys :
            /\ \A v \in pending.features[i].ind[k] : v > SENTINEL
            /\ LET c == pending.features[i].code
                   val == IF c \in last.fetched /\ k \in DOMAIN FieldMap
                          THEN Get(remote[c].vals, FieldMap[k]) ELSE {}
               IN  (\E v \in val : v <= SENTINEL) =>
                       pending.features[i].ind[k] =
                           IF last.name = "build_year" THEN {}
                           ELSE before.features[i].ind[k]

\* a build over a layer whose first record carries the marker: the key is
\* absent from the feature written for it
C4_Witness ==
    /\ pc = "writing"
    /\ last.name = "build_year"
    /\ 1 \in last.fetched
    /\ "aantal_inwoners" \in DOMAIN FieldMap
    /\ Get(remote[1].vals, FieldMap["aantal_inwoners"]) = {SENTINEL}
    /\ pending.features[1].ind["aantal_inwoners"] = {}

\* C10: the file on disk never holds a truncated or partially written
\* document, so a crash during the write leaves the previous file intact.
C10_FileNeverPartial == disk.st # "partial"

(***************************************************************************)
(* SpecPipeline: the runs that write a Feature Collection, those of        *)
(* SpecFetch (bag files) together with those of SpecEnrich.                *)
(***************************************************************************)
(***************************************************************************)
(* Name normalisation.  A name is a sequence over NaamChars: a letter in   *)
(* either case, a blank, or a parenthesised suffix in either case taken as *)
(* one item (a regular expression matches a suffix whole or not at all).   *)
(***************************************************************************)
NaamChars == {"u", "U", " ", "(gemeente)", "(GEMEENTE)", "(SG)", "(sg)",
              "(L.)", "(l.)"}

NaamStrings == UNION {[1..n -> NaamChars] : n \in 0..MaxNaamLen}

\* str.lower(), item by item
LowerChar(c) ==
    CASE c = "U" -> "u"
      [] c = "(GEMEENTE)" -> "(gemeente)"
      [] c = "(SG)" -> "(sg)"
      [] c = "(GA)" -> "(ga)"
      [] c = "(L.)" -> "(l.)"
      [] OTHER -> c

LowerStr(s) == [i \in 1..Len(s) |-> LowerChar(s[i])]

\* the items of s that are not blanks
Inked(s) == {i \in 1..Len(s) : s[i] # " "}

\* str.strip()
StripStr(s) ==
    IF Inked(s) = {} THEN <<>>
    ELSE SubSeq(s, Lowest(Inked(s)), Highest(Inked(s)))

\* s without its trailing blanks
RStripStr(s) ==
    IF Inked(s) = {} THEN <<>> ELSE SubSeq(s, 1, Highest(Inked(s)))

\* re.sub(r'\s*<suffix>\s*$', '', s), the match being case-sensitive
StripSuffix(s, suffix) ==
    IF RStripStr(s) # <<>> /\ RStripStr(s)[Len(RStripStr(s))] = suffix
    THEN RStripStr(SubSeq(RStripStr(s), 1, Len(RStripStr(s)) - 1))
    ELSE s

RECURSIVE StripSuffixes(_, _)
\* the re.sub lines of normalize_naam, in order
StripSuffixes(s, suffixes) ==
    IF suffixes = <<>> THEN s
    ELSE StripSuffixes(StripSuffix(s, Head(suffixes)), Tail(suffixes))

\* a suffix list that leaves "(gemeente)" out
SqlSuffixesNoGemeente == <<"(SG)", "(GA)">>

\* the suffixes enrich_from_sql.normalize_naam removes
SqlSuffixes == <<"(gemeente)", "(SG)", "(GA)">>

\* the suffixes enrich_flora_fauna.normalize_naam removes
FFSuffixes == <<"(gemeente)", "(L.)", "(O.)", "(GR.)", "(NH.)">>

\* normalize_naam of either module, by its suffix list
normalize_naam(s, suffixes) ==
    IF s = <<>> THEN <<>>
    ELSE LowerStr(StripStr(StripSuffixes(StripStr(s), suffixes)))

SuffixesOf(fn) == IF fn = "sql" THEN SqlSuffixes ELSE FFSuffixes

\* a name is normalised by one of the two modules; the key computed before
\* is kept for comparison
Normalize(fn) ==
    /\ pc = "naam"
    /\ earlier = NoKey
    /\ matchkey.fn \in {"none", fn}
    /\ matchkey.naam # naam_in \/ matchkey.fn = "none"
    /\ matchkey' = [fn |-> fn, naam |-> naam_in,
                    key |-> normalize_naam(naam_in, SuffixesOf(fn))]
    /\ earlier' = matchkey
    /\ UNCHANGED <<naam_in, geom_dict, result>>

SqlNormalize == Normalize("sql")

FFNormalize == Normalize("ff")

\* the name has just been normalised and can be varied
Varies ==
    /\ pc = "naam"
    /\ matchkey.fn # "none"
    /\ matchkey.naam = naam_in
    /\ earlier = NoKey

\* the form CBS gives the name
GemeenteSuffix == <<" ", "(gemeente)">>

CbsForm ==
    /\ Varies
    /\ naam_in' = naam_in \o GemeenteSuffix
    /\ UNCHANGED <<matchkey, earlier, geom_dict, result>>

\* one letter, or the letters of one suffix, in the other case
Recase ==
    /\ Varies
    /\ \E i \in 1..Len(naam_in) : \E c \in NaamChars :
        /\ c # naam_in[i]
        /\ LowerChar(c) = LowerChar(naam_in[i])
        /\ naam_in' = [naam_in EXCEPT ![i] = c]
    /\ UNCHANGED <<matchkey, earlier, geom_dict, result>>

\* a blank before or after the name
Pad ==
    /\ Varies
    /\ naam_in' \in {<<" ">> \o naam_in, naam_in \o <<" ">>}
    /\ UNCHANGED <<matchkey, earlier, geom_dict, result>>

InitNaam ==
    /\ FetchIdle
    /\ ResolveIdle
    /\ EnrichIdle
    /\ pc = "naam"
    /\ naam_in \in NaamStrings
    /\ matchkey = NoKey
    /\ earlier = NoKey
    /\ geom_dict = NoGeom
    /\ result = NoResult
    /\ CallIdle

NextNaam ==
    \/ /\ \/ SqlNormalize
          \/ FFNormalize
          \/ CbsForm
          \/ Recase
          \/ Pad
       /\ UNCHANGED <<fetchVars, resolveVars, remote, disk, pending, before,
                      last, cache, runs, now, prev, callVars>>

SpecNaam == InitNaam /\ [][NextNaam]_vars

\* the name normalised last is the one normalised before it, by the same
\* module, with " (gemeente)" appended
Suffixed ==
    /\ earlier.fn # "none"
    /\ matchkey.fn = earlier.fn
    /\ matchkey.naam = earlier.naam \o GemeenteSuffix

EndsInGemeente(s) ==
    RStripStr(s) # <<>> /\ RStripStr(s)[Len(RStripStr(s))] = "(gemeente)"

SameButCase(s, t) == LowerStr(StripStr(s)) = LowerStr(StripStr(t))

\* C17: two names that differ only in letter case, the case of a
\* parenthesised suffix included, and in surrounding whitespace have the
\* same matching key under normalize_naam.
C17_CaseFolding ==
    (/\ earlier.fn # "none"
     /\ matchkey.fn = earlier.fn
     /\ SameButCase(earlier.naam, matchkey.naam)) =>
        matchkey.key = earlier.key

(***************************************************************************)
(* build_geojson.simplify_geometry.  A coordinate is a whole number of     *)
(* millionths of a degree, so a value rounded to 5 decimals is a multiple  *)
(* of 10.  What Shapely does with a geometry is not in the source: it      *)
(* raises, or gives an empty geometry, or keeps some of the points.        *)
(***************************************************************************)
Precision == 10

CoordValues == {5123450, 5123455, 5123457}

Geometries ==
    {[type |-> "Polygon", coordinates |-> c] :
        c \in UNION {[1..n -> CoordValues] : n \in 0..MaxCoords}}

\* round(c, 5), a tie going to the even neighbour
round5(c) ==
    LET q == c \div Precision
        r == c % Precision
    IN  IF 2 * r < Precision \/ (2 * r = Precision /\ q % 2 = 0)
        THEN q * Precision
        ELSE (q + 1) * Precision

round_coords(coords) == [i \in 1..Len(coords) |-> round5(coords[i])]

\* the points of coords at the positions kept, in order
KeepPoints(coords, kept) ==
    LET nth(k) == CHOOSE i \in kept : Cardinality({j \in kept : j < i}) = k - 1
    IN  [k \in 1..Cardinality(kept) |-> coords[nth(k)]]

\* geom.simplify keeps some points; the result is mapped and rounded
SimplifyNormal ==
    /\ pc = "geometry"
    /\ result = NoResult
    /\ \E kept \in SUBSET (1..Len(geom_dict.coordinates)) :
        /\ kept # {}
        /\ result' = [path |-> "simplified",
                      geom |-> [type |-> geom_dict.type,
                                coordinates |-> round_coords(
                                    KeepPoints(geom_dict.coordinates, kept))]]
    /\ UNCHANGED <<geom_dict, naam_in, matchkey, earlier>>

\* simplified.is_empty: return geom_dict
SimplifyEmpty ==
    /\ pc = "geometry"
    /\ result = NoResult
    /\ result' = [path |-> "empty", geom |-> geom_dict]
    /\ UNCHANGED <<geom_dict, naam_in, matchkey, earlier>>

\* except Exception: the coordinates of geom_dict are rounded in place
SimplifyRaises ==
    /\ pc = "geometry"
    /\ result = NoResult
    /\ geom_dict' = [geom_dict EXCEPT
                        !.coordinates = round_coords(geom_dict.coordinates)]
    /\ result' = [path |-> "except", geom |-> geom_dict']
    /\ UNCHANGED <<naam_in, matchkey, earlier>>

InitGeometry ==
    /\ FetchIdle
    /\ ResolveIdle
    /\ EnrichIdle
    /\ pc = "geometry"
    /\ naam_in = <<>>
    /\ matchkey = NoKey
    /\ earlier = NoKey
    /\ geom_dict \in Geometries
    /\ result = NoResult
    /\ CallIdle

NextGeometry ==
    \/ /\ \/ SimplifyNormal
          \/ SimplifyEmpty
          \/ SimplifyRaises
       /\ UNCHANGED <<fetchVars, resolveVars, remote, disk, pending, before,
                      last, cache, runs, now, prev, callVars>>

SpecGeometry == InitGeometry /\ [][NextGeometry]_vars

\* C18: on each of its three paths simplify_geometry returns a geometry that
\* is not empty and whose coordinates are all rounded to 5 decimals.
C18_ShapeKeptAndRounded ==
    result.path # "none" =>
        /\ result.geom.coordinates # <<>>
        /\ \A i \in 1..Len(result.geom.coordinates) :
              result.geom.coordinates[i] % Precision = 0

(***************************************************************************)
(* Runs repeated.  The clock advances between runs, and an observer notes  *)
(* of a run what it was given and what it left in the file, so that the    *)
(* next run can be compared with it.                                       *)
(***************************************************************************)
\* time.strftime reads the clock once per run; it ticks between runs
Tick ==
    /\ pc = "idle"
    /\ now < MaxClock
    /\ now' = now + 1
    /\ UNCHANGED <<fetchVars, available, field_map, remote, disk, pending,
                   before, last, cache, runs, prev, pureVars>>

\* what the run at hand was given and the document it leaves
NoteOfRun ==
    [name |-> last.name, run |-> runs, ok |-> last.ok, input |-> last.input,
     doc |-> IF pc = "writing" THEN pending ELSE before]

Remember ==
    /\ pc \in {"writing", "failed"}
    /\ prev = NoPrev
    /\ prev' = NoteOfRun
    /\ UNCHANGED <<fetchVars, available, field_map, remote, disk, pending,
                   before, last, cache, runs, now, pureVars>>

\* the layer serves both attributes, and the file, if there is one, is of
\* full length
InitRerun ==
    /\ InitEnrich
    /\ Len(available) = 2
    /\ disk # NoGeo => Len(disk.features) = MaxFeatures

NextRerun == NextEnrich \/ Remember

SpecRerun == InitRerun /\ [][NextRerun]_vars

\* builds repeated, with the clock running
NextRebuild ==
    \/ BuildYear
    \/ WriteDone
    \/ WriteCrash
    \/ Return
    \/ Tick
    \/ Remember

SpecRebuild == InitEnrich /\ [][NextRebuild]_vars

\* the run at hand repeats the run noted: the same pass, started right after
\* it, given the same remote answers
Repeats ==
    /\ pc \in {"writing", "failed"}
    /\ last.name = prev.name
    /\ runs = prev.run + 1
    /\ prev.ok /\ last.ok
    /\ last.input = prev.input
    /\ prev.doc.st = "ok"
    /\ before = prev.doc

\* C12: an enrichment pass that is run again right after itself on the file
\* it wrote, with the same remote data, leaves every feature (properties and
\* geometry) as the first run left it: if it writes, it writes the features
\* it loaded.
C12_RerunIdempotent ==
    (Repeats /\ last.name \in Enrichers /\ pc = "writing") =>
        pending.features = prev.doc.features

C12_Witness ==
    /\ Repeats
    /\ pc = "writing"
    /\ last.name = "enrich_flora"
    /\ \E i \in 1..Len(pending.features) :
          /\ pending.features[i].ind["ff_totaal_soorten"] # {}
          /\ pending.features[i] = before.features[i]

\* C13: build_year run again with the same parameters on the same remote data
\* writes the document the first run wrote, metadata block included.
C13_BuildByteIdentical ==
    (Repeats /\ last.name = "build_year" /\ pc = "writing") =>
        pending = prev.doc

\* some feature of the document holds a value under key k
OnFeatures(doc, k) == \E i \in 1..Len(doc.features) : doc.features[i].ind[k] # {}

\* C14: an enrichment pass keeps in metadata.indicators every key that the
\* file it loaded listed there and that still has a value on some feature it
\* writes, and it writes indicators_count as the length of the list.
C14_IndicatorsAccumulate ==
    (pc = "writing" /\ last.name \in Enrichers) =>
        /\ \A k \in before.metadata.indicators :
              OnFeatures(pending, k) => k \in pending.metadata.indicators
        /\ pending.metadata.indicators_count
              = Cardinality(pending.metadata.indicators)

\* C15: enrich_from_sql.enrich_file writes no bodemgebruik or landbouw value
\* at or below the missing-value threshold: a feature property it sets or
\* changes is above it.
C15_SqlDropsSentinel ==
    (pc = "writing" /\ last.name = "enrich_sql") =>
        \A i \in 1..Len(pending.features) : \A k \in BbgKeys \cup LbtKeys :
            pending.features[i].ind[k] # before.features[i].ind[k] =>
                \A v \in pending.features[i].ind[k] : v > MISSING_MAX

InitPipeline == InitFetch \/ InitEnrich

NextPipeline == NextFetch \/ NextEnrich

SpecPipeline == InitPipeline /\ [][NextPipeline]_vars

\* C11: in every Feature Collection on disk or being written, whether by
\* build_year, build_gemeente, download_bag's save or an enrichment pass,
\* metadata.count is the number of entries in features.
C11_CountIsLength ==
    /\ disk.st = "ok" => disk.metadata.count = Len(disk.features)
    /\ pc = "writing" => pending.metadata.count = Len(pending.features)
    /\ bag_file.exists => bag_file.count = Len(bag_file.features)

\* a build followed by a flora pass over three features
C11_Witness ==
    /\ pc = "idle"
    /\ runs = 2
    /\ disk.st = "ok"
    /\ disk.metadata.gbif_source
    /\ Len(disk.features) = 3
    /\ disk.features[1].geom.version = 1
    /\ disk.metadata.count = 3


(***************************************************************************)
(* SpecClean: builds and enrichment passes against remote layers in which  *)
(* a record can lack its identifier or its geometry, and build_gemeente    *)
(* against a verblijfsobject layer with one such row, or with a second row *)
(* of the same object.                                                     *)
(***************************************************************************)
\* the records a layer can hold at place c: complete, without identifier,
\* or without geometry
RawRecords(c, attrs) ==
    {[code |-> id, naam |-> NaamOf(c), geometry |-> g,
      vals |-> [a \in attrs |-> {5}]] :
        id \in {c, NoCode}, g \in BOOLEAN}

RawLayers(attrs) ==
    {r \in [1..MaxFeatures -> UNION {RawRecords(c, attrs) :
                                        c \in 1..MaxFeatures}] :
        \A c \in 1..MaxFeatures : r[c] \in RawRecords(c, attrs)}

\* a build or an enrichment pass over such a layer
InitCleanYear ==
    /\ FetchIdle
    /\ PureIdle
    /\ now = 0
    /\ pc = "idle"
    /\ available = << <<"B">>, <<"a">> >>
    /\ field_map = <<>>
    /\ remote \in RawLayers(Range(available))
    /\ disk \in {NoGeo} \cup {d \in InitialFiles :
                                 Len(d.features) = MaxFeatures}
    /\ pending = NoGeo
    /\ before = NoGeo
    /\ last = NoPass
    /\ cache = <<>>
    /\ runs = 0
    /\ prev = NoPrev

\* the rows that can be the odd one: on the first page or on the second
BadRows == {2, PAGE_SIZE + 1}

\* build_gemeente over a layer of more than one page with one odd row
InitCleanBag ==
    /\ fetcher = "build_bag"
    /\ svc \in [n : {PAGE_SIZE + r : r \in Rests \ {0}},
                failAt : {0 - 1, PAGE_SIZE},
                nm : {FALSE},
                hits : Sizes,
                hitsFail : {FALSE},
                order : {"id"},
                bad : {"none", "id", "geom", "dup"},
                badAt : BadRows]
    /\ svc.hits = svc.n
    /\ failsLeft \in IF svc.failAt < 0 THEN {0} ELSE {1, Forever}
    /\ expected_total = 0 - 1
    /\ max_features = NoMax
    /\ pc = "count"
    /\ start = 0
    /\ all_features = <<>>
    /\ reqlog = <<>>
    /\ bag_file = NoFile
    /\ ResolveIdle
    /\ EnrichIdle
    /\ PureIdle

InitClean == InitCleanYear \/ InitCleanBag

NextClean ==
    \/ BuildGemeenteCount
    \/ BuildGemeentePage
    \/ BuildGemeenteWrite
    \/ NextEnrich

SpecClean == InitClean /\ [][NextClean]_vars

\* a feature of a gemeenten file with its identifier and a geometry
Identifiable(f) == f.code # NoCode /\ f.geom # NoGeometry

\* C21: every feature of a file build_year writes has a non-empty
\* identifier and a geometry, every feature of a file build_gemeente
\* writes has an identificatie and a geometry (remote records without
\* either are skipped), and an enrichment pass writes the features it
\* loaded, in their order, with their identifiers
C21_FeaturesIdentified ==
    /\ disk # NoGeo =>
          \A i \in 1..Len(disk.features) : Identifiable(disk.features[i])
    /\ pc = "writing" =>
          \A i \in 1..Len(pending.features) :
             Identifiable(pending.features[i])
    /\ pc = "writing" /\ last.name \in Enrichers =>
          /\ Len(pending.features) = Len(before.features)
          /\ \A i \in 1..Len(before.features) :
                pending.features[i].code = before.features[i].code
    /\ bag_file.exists =>
          \A i \in 1..Len(bag_file.features) :
             clean_feature(bag_file.features[i])

\* a build that skipped a record of the remote layer
C21_Witness ==
    /\ pc = "writing"
    /\ last.name = "build_year"
    /\ Len(pending.features) = MaxFeatures - 2
    /\ remote[1].code = NoCode
    /\ ~remote[2].geometry

\* sum(tally.values())
RECURSIVE TallySum(_)
TallySum(tally) ==
    IF DOMAIN tally = {} THEN 0
    ELSE LET v == CHOOSE w \in DOMAIN tally : TRUE
         IN  tally[v] + TallySum([w \in DOMAIN tally \ {v} |-> tally[w]])

\* row f comes before row r in the order of the download
Precedes(f, r) ==
    \E i \in 1..Len(all_features) :
        /\ all_features[i] = f
        /\ \A j \in 1..i : all_features[j] # r

\* the downloaded rows with an identificatie and a geometry that the file
\* does not hold
Dropped ==
    {r \in Range(all_features) \ Range(bag_file.features) : clean_feature(r)}

\* C27: in the file build_gemeente writes no two features share an
\* identificatie, a row left out as a duplicate comes after the row kept
\* for its identificatie, metadata.count is the number of features, and
\* the tallies of gebruiksdoelen and of statussen each sum to the count
C27_BagFileConsistent ==
    (fetcher = "build_bag" /\ pc = "returned" /\ bag_file.exists) =>
        /\ Cardinality({Identificatie(bag_file.features[i]) :
                           i \in 1..Len(bag_file.features)})
              = Len(bag_file.features)
        /\ \A r \in Dropped :
              \E f \in Range(bag_file.features) :
                 /\ Identificatie(f) = Identificatie(r)
                 /\ Precedes(f, r)
        /\ bag_file.count = Len(bag_file.features)
        /\ TallySum(bag_file.gebruiksdoelen) = bag_file.count
        /\ TallySum(bag_file.statussen) = bag_file.count

\* a file written from two pages, the second of which starts with another
\* row of the object of row 1
C27_Witness ==
    /\ fetcher = "build_bag"
    /\ pc = "returned"
    /\ bag_file.exists
    /\ svc.bad = "dup"
    /\ svc.badAt = PAGE_SIZE + 1
    /\ svc.badAt \in Range(all_features)
    /\ bag_file.count = Len(all_features) - 1
    /\ DOMAIN bag_file.gebruiksdoelen
          = {"onbekend", "woonfunctie", "winkelfunctie"}

(***************************************************************************)
(* SpecStages: enrich_geojson.enrich_year and enrich_batch.enrich step by  *)
(* step.  pc is the stage the run has completed: "loaded", "discovered",   *)
(* "resolved", the fetch ("loop", then "returned" or "raised", then        *)
(* "fetched"), "merged", "writing".  reqlog holds the requests of the run: *)
(* DESCRIBE for discover_fields, HITS for count_total, the startIndex of   *)
(* every page request.                                                     *)
(***************************************************************************)
DESCRIBE == 0 - 2
HITS == 0 - 1

StageFetchers == {"enrich_geojson", "enrich_batch"}

RunName == IF fetcher = "enrich_geojson" THEN "enrich_year" ELSE "enrich_batch"

stageFrame == <<svc, fetcher, max_features, bag_file, available, remote,
                cache, histVars, pureVars>>

\* Stap 1: os.path.exists, json.load
LoadStage ==
    /\ fetcher \in StageFetchers
    /\ StartRun
    /\ pc' = IF disk.st = "ok" THEN "loaded" ELSE "failed"
    /\ last' = [NoPass EXCEPT !.name = RunName]
    /\ field_map' = <<>>
    /\ expected_total' = 0 - 1
    /\ start' = 0
    /\ all_features' = <<>>
    /\ reqlog' = <<>>
    /\ UNCHANGED <<failsLeft, disk, pending>>
    /\ UNCHANGED stageFrame

\* Stap 2: discover_fields; enrich_year returns None when it raises,
\* enrich lets the exception through
DiscoverStage ==
    /\ fetcher \in StageFetchers
    /\ pc = "loaded"
    /\ reqlog' = Log(<<DESCRIBE>>)
    /\ \E ok \in BOOLEAN : pc' = IF ok THEN "discovered" ELSE "failed"
    /\ UNCHANGED <<failsLeft, expected_total, start, all_features, field_map,
                   disk, pending, before, last, runs>>
    /\ UNCHANGED stageFrame

\* Stap 3: resolve_fields; enrich_year returns the filename when no
\* resolved key is new
ResolveStage ==
    /\ fetcher \in StageFetchers
    /\ pc = "discovered"
    /\ field_map' = resolve_fields(available)
    /\ LET new_fields == {k \in DOMAIN field_map' :
                             k \notin ExistingKeys(before.features)}
       IN  pc' = IF fetcher = "enrich_geojson" /\ new_fields = {}
                 THEN "failed" ELSE "resolved"
    /\ last' = [last EXCEPT !.ok = TRUE]
    /\ UNCHANGED <<failsLeft, expected_total, start, all_features, reqlog,
                   disk, pending, before, runs>>
    /\ UNCHANGED stageFrame

\* count_total, which raises when the request fails; then the first call of
\* download_stats_only or fetch_batch, if there is a batch
CountStage ==
    /\ fetcher \in StageFetchers
    /\ pc = "resolved"
    /\ reqlog' = Log(<<HITS>>)
    /\ \E ok \in BOOLEAN :
        IF ~ok
        THEN /\ pc' = "failed"
             /\ last' = [last EXCEPT !.ok = FALSE]
             /\ expected_total' = expected_total
        ELSE /\ expected_total' = svc.hits
             /\ IF fetcher = "enrich_batch"
                      /\ BatchCount(FieldList(field_map)) = 0
                THEN pc' = "fetched" /\ last' = last
                ELSE pc' = "loop" /\ last' = [last EXCEPT !.input.batch = 1]
    /\ UNCHANGED <<failsLeft, start, all_features, field_map, disk, pending,
                   before, runs>>
    /\ UNCHANGED stageFrame

\* the codes of the file's areas among the fetched records
FetchedCodes == {c \in Identified : c \in Range(all_features)}

\* download_stats_only returned or raised (enrich_year does not catch it);
\* fetch_batch returned (all_stats is updated) or raised (`continue`), and
\* the next batch, if any, is fetched
FetchStage ==
    /\ fetcher \in StageFetchers
    /\ pc \in {"returned", "raised"}
    /\ IF fetcher = "enrich_geojson"
       THEN /\ pc' = IF pc = "returned" THEN "fetched" ELSE "failed"
            /\ last' = [last EXCEPT !.fetched =
                           IF pc = "returned" THEN FetchedCodes ELSE {},
                                    !.ok = (pc = "returned")]
            /\ UNCHANGED <<start, all_features>>
       ELSE /\ last' = IF pc = "returned"
                       THEN [last EXCEPT
                               !.fetched = last.fetched \cup FetchedCodes,
                               !.input.done = last.input.done
                                                \cup {last.input.batch},
                               !.input.batch = last.input.batch + 1]
                       ELSE [last EXCEPT
                               !.input.batch = last.input.batch + 1]
            /\ IF last.input.batch < BatchCount(FieldList(field_map))
               THEN pc' = "loop" /\ start' = 0 /\ all_features' = <<>>
               ELSE pc' = "fetched" /\ UNCHANGED <<start, all_features>>
    /\ UNCHANGED <<failsLeft, expected_total, reqlog, field_map, disk,
                   pending, before, runs>>
    /\ UNCHANGED stageFrame

\* stats_data / all_stats as the merge sees it
StageStats ==
    IF fetcher = "enrich_geojson"
    THEN [c \in last.fetched |-> remote[c].vals]
    ELSE LET got == UNION {Range(Batch(FieldList(field_map), b)) :
                              b \in last.input.done}
         IN  [c \in last.fetched |->
                 [pf \in got \cap DOMAIN remote[c].vals |->
                     remote[c].vals[pf]]]

\* the document the merge and the metadata update leave in memory
MergedDoc ==
    LET features == IF fetcher = "enrich_geojson"
                    THEN MergeYear(before.features, StageStats, field_map)
                    ELSE MergeBatch(before.features, StageStats, field_map)
        inds == IF fetcher = "enrich_geojson"
                THEN IndicatorsYear(before.features, StageStats, field_map)
                ELSE IndicatorsBatch(before.features, StageStats, field_map)
    IN  Doc(features,
            EnrichMeta(features,
                       EnrichedCount(before.features, StageStats), inds))

\* a merge loop that asks the service again
MergeRefetches == <<0>>

\* the requests the merge loop issues: none
MergeRequests == <<>>

\* Stap 5 and the metadata update: the merge over the loaded features
MergeStage ==
    /\ fetcher \in StageFetchers
    /\ pc = "fetched"
    /\ pending' = MergedDoc
    /\ reqlog' = Log(MergeRequests)
    /\ last' = [last EXCEPT
                  !.enriched = EnrichedCount(before.features, StageStats)]
    /\ pc' = "merged"
    /\ UNCHANGED <<failsLeft, expected_total, start, all_features, field_map,
                   disk, before, runs>>
    /\ UNCHANGED stageFrame

\* open(filename, "w") and json.dump of the merged document
WriteStage ==
    /\ fetcher \in StageFetchers
    /\ pc = "merged"
    /\ OpenForWrite(pending)
    /\ last' = [last EXCEPT !.wrote = TRUE]
    /\ UNCHANGED <<failsLeft, expected_total, start, all_features, reqlog,
                   field_map, before, runs>>
    /\ UNCHANGED stageFrame

\* one small layer of the areas of the file behind a service of one page
\* or of two
InitStages ==
    /\ fetcher \in StageFetchers
    /\ svc \in [n : {MaxFeatures, PAGE_SIZE + 1},
                failAt : {0 - 1, 0, PAGE_SIZE},
                nm : BOOLEAN,
                hits : Sizes \cup {MaxFeatures},
                hitsFail : {FALSE},
                order : {"id"},
                bad : {"none"},
                badAt : {0}]
    /\ svc.hits = svc.n
    /\ failsLeft \in IF svc.failAt < 0 THEN {0} ELSE {1, Forever}
    /\ expected_total = 0 - 1
    /\ max_features = NoMax
    /\ start = 0
    /\ all_features = <<>>
    /\ reqlog = <<>>
    /\ bag_file = NoFile
    /\ PureIdle
    /\ now = 0
    /\ pc = "idle"
    /\ available \in EnrichAvailables
    /\ field_map = <<>>
    /\ remote \in {r \in RemoteLayers(Range(available)) :
                      DOMAIN r = 1..MaxFeatures}
    /\ disk \in {NoGeo} \cup {d \in InitialFiles :
                                 Len(d.features) = MaxFeatures}
    /\ pending = NoGeo
    /\ before = NoGeo
    /\ last = NoPass
    /\ cache = <<>>
    /\ runs = 0
    /\ prev = NoPrev

NextStages ==
    \/ LoadStage
    \/ DiscoverStage
    \/ ResolveStage
    \/ CountStage
    \/ DownloadStatsPage
    \/ FetchBatchPage
    \/ FetchStage
    \/ MergeStage
    \/ WriteStage
    \/ WriteDone
    \/ WriteCrash
    \/ Return

SpecStages == InitStages /\ [][NextStages]_vars

\* the place of a stage in LOAD, DISCOVER_REMOTE_FIELDS, RESOLVE, FETCH,
\* MERGE, WRITE
Rank(stage) ==
    CASE stage = "idle" -> 0
      [] stage = "loaded" -> 1
      [] stage = "discovered" -> 2
      [] stage = "resolved" -> 3
      [] stage \in {"loop", "returned", "raised", "fetched"} -> 4
      [] stage = "merged" -> 5
      [] stage = "writing" -> 6
      [] OTHER -> 7

\* C22: a run of enrich_year or enrich passes its stages in the order
\* LOAD, DISCOVER_REMOTE_FIELDS, RESOLVE, FETCH, MERGE, WRITE without
\* skipping one; once the fetch is over no request is issued; the file is
\* opened for writing at most once in a run, after the merge, with the
\* merge of every fetched record in the document; and a run that ends
\* before WRITE leaves the file as it loaded it
C22_StageOrder ==
    [][/\ pc' # pc =>
            \/ pc' = "failed" /\ Rank(pc) < 5
            \/ pc' = "idle" /\ pc \in {"failed", "writing"}
            \/ pc' # "failed" /\ Rank(pc') \in {Rank(pc), Rank(pc) + 1}
       /\ pc \in {"fetched", "merged", "writing"} => reqlog' = reqlog
       /\ disk' # disk => pc' = "writing" \/ pc = "writing"
       /\ (pc' = "writing" /\ pc # "writing") =>
            /\ pc = "merged"
            /\ ~last.wrote
            /\ pending' = MergedDoc
       /\ pc' = "failed" => disk' = disk /\ disk' = before'
      ]_vars

\* a run whose fetch took two pages has merged them and is writing
C22_Witness ==
    /\ pc = "writing"
    /\ last.wrote
    /\ Len(reqlog) = 4
    /\ reqlog[4] = PAGE_SIZE
    /\ last.enriched = MaxFeatures
    /\ runs = 2

(***************************************************************************)
(* SpecHead: enrich_year over files of more than HEAD features, in which   *)
(* one feature, at any place, carries the two indicators, or none does.    *)
(***************************************************************************)
LongFeature(i, at) ==
    [code |-> i, naam |-> NaamOf(i), geom |-> [of |-> i, version |-> 0],
     ind |-> IF i = at
             THEN [NoInd EXCEPT !["aantal_inwoners"] = {3},
                                !["gem_inkomen_inwoner"] = {3}]
             ELSE NoInd]

LongFeatures(n, at) == [i \in 1..n |-> LongFeature(i, at)]

\* at = 0: no feature carries an indicator
LongFiles ==
    {Doc(LongFeatures(HEAD + 1, at),
         BuildMeta(LongFeatures(HEAD + 1, at),
                   WithData(LongFeatures(HEAD + 1, at)))) :
        at \in 0..(HEAD + 1)}

InitHead ==
    /\ FetchIdle
    /\ PureIdle
    /\ now = 0
    /\ pc = "idle"
    /\ available \in EnrichAvailables
    /\ field_map = <<>>
    /\ remote \in RemoteLayers(Range(available))
    /\ disk \in LongFiles
    /\ pending = NoGeo
    /\ before = NoGeo
    /\ last = NoPass
    /\ cache = <<>>
    /\ runs = 0
    /\ prev = NoPrev

NextHead == EnrichYear \/ WriteDone \/ WriteCrash \/ Return

SpecHead == InitHead /\ [][NextHead]_vars

\* every resolved key is among the properties of some feature of the file
AllKeysInFile(features) ==
    \A k \in DOMAIN FieldMap :
        \E i \in 1..Len(features) : k \in PropKeys(features[i])

\* C29: enrich_year, given a readable file and a service that answers,
\* returns without fetching, merging and writing if and only if every
\* resolved key is a property of at least one feature of the file,
\* wherever in the file that feature stands
C29_UpToDateAnyOrder ==
    (last.name = "enrich_year" /\ last.ok /\ pc \in {"failed", "writing"}) =>
        (pc = "failed" <=> AllKeysInFile(before.features))

\* C30: when every batch was fetched, enrich_batch.enrich writes the
\* features the merge of enrich_year makes of the same file, field mapping
\* and remote records: every matched feature has, under every resolved
\* key, the non-missing value of the key's remote attribute, also when two
\* keys resolve to one attribute
C30_BatchMergeEqualsYearMerge ==
    (/\ pc = "writing"
     /\ last.name = "enrich_batch"
     /\ last.input.done = 1..BatchCount(FieldList(FieldMap))) =>
        /\ pending.features = MergeYear(before.features, StatsData, FieldMap)
        /\ \A i \in 1..Len(before.features) :
              \A k \in DOMAIN FieldMap :
                 LET f == before.features[i]
                 IN  (Matches(f, StatsData)
                        /\ clean_value(Get(StatsData[f.code], FieldMap[k]))
                              # {}) =>
                     pending.features[i].ind[k]
                        = clean_value(Get(StatsData[f.code], FieldMap[k]))

(***************************************************************************)
(* The pagination loops against a service without errors (FairSpecFetch).  *)
(***************************************************************************)
\* the service answers every request and holds N >= 1 records, the number
\* its hits query reports
ErrorFree ==
    /\ NoRequestErrors
    /\ ~svc.hitsFail
    /\ svc.n >= 1
    /\ svc.hits \in {0 - 1, svc.n}

\* the run of the fetcher is over
Ended == pc \in {"returned", "saved", "raised"}

\* (N + 999) // 1000 and N // 1000 + 1
CeilPages(n) == (n + PAGE_SIZE - 1) \div PAGE_SIZE
FloorPagesPlusOne(n) == n \div PAGE_SIZE + 1

\* what the loops do against such a service
PaginationCounts ==
    ErrorFree =>
        /\ pc = "loop" => start = Len(all_features)
        /\ \A i \in 1..Len(reqlog) : reqlog[i] = (i - 1) * PAGE_SIZE
        /\ (fetcher = "build_geojson" /\ pc = "returned") =>
              Len(reqlog) = IF NumberMatched > 0 THEN CeilPages(svc.n)
                            ELSE FloorPagesPlusOne(svc.n)
        /\ (fetcher = "download_bag" /\ max_features = NoMax /\ Ended) =>
              Len(reqlog) = FloorPagesPlusOne(svc.n)

\* C25: against an error-free service of N >= 1 records every pagination
\* loop ends, every request is made at the offset that is the number of
\* records received so far, download_features of build_geojson makes
\* ceil(N/1000) requests when the matched total is known and
\* floor(N/1000)+1 when it is not, and download_features of download_bag
\* without a maximum makes floor(N/1000)+1
C25_PaginationTerminates ==
    /\ [](PaginationCounts)
    /\ ErrorFree ~> Ended

\* 2000 records, total unknown: the third request brings the empty page
C25_Witness ==
    /\ fetcher = "build_geojson"
    /\ ErrorFree
    /\ NumberMatched <= 0
    /\ svc.n = 2 * PAGE_SIZE
    /\ pc = "returned"
    /\ reqlog = <<0, PAGE_SIZE, 2 * PAGE_SIZE>>

(***************************************************************************)
(* SpecRetry: one call of a retrying helper, attempt by attempt.  start is *)
(* the loop variable `attempt`, reqlog the outcome of every HTTP attempt   *)
(* of the call, ret the value returned.                                    *)
(***************************************************************************)
Helpers == {"download_page", "count_features", "gbif_get"}

\* what one requests.get can come to: an answer with status 200 (and a
\* body that parses), another status, a timeout, another exception
Outcomes(helper) ==
    IF helper = "gbif_get" THEN {"200", "503", "500", "timeout", "error"}
    ELSE {"200", "error"}

\* what the helper returns from a good answer
Answer(helper) ==
    IF helper = "download_page" THEN Page(0, PAGE_SIZE)
    ELSE IF helper = "count_features" THEN svc.hits
    ELSE [count |-> svc.n]

\* a loop that goes round once more than MAX_RETRIES
LastAttemptOneLate(attempt) == attempt >= MAX_RETRIES

\* the attempt after which `for attempt in range(MAX_RETRIES)` ends
LastAttempt(attempt) == attempt >= MAX_RETRIES - 1

Attempt ==
    /\ fetcher \in Helpers
    /\ pc = "attempt"
    /\ \E outcome \in Outcomes(fetcher) :
        /\ reqlog' = Log(<<outcome>>)
        /\ IF outcome = "200"
           THEN /\ pc' = "returned"
                /\ ret' = {Answer(fetcher)}
                /\ start' = start
           ELSE IF ~LastAttempt(start)
           THEN /\ pc' = "attempt"
                /\ ret' = ret
                /\ start' = start + 1
           ELSE /\ start' = start
                /\ pc' = IF fetcher = "count_features" THEN "raised"
                         ELSE "returned"
                /\ ret' = IF fetcher = "download_page" THEN {<<>>} ELSE {}
    /\ UNCHANGED <<svc, failsLeft, fetcher, expected_total, max_features,
                   all_features, bag_file, gbif_api, mem, ff>>
    /\ UNCHANGED <<resolveVars, remote, disk, pending, before, last, cache,
                   runs, now, prev, naam_in, matchkey, earlier, geom_dict,
                   result>>

\* the caller goes on to its next call of the helper
NextCall ==
    /\ fetcher \in Helpers
    /\ pc \in {"returned", "raised"}
    /\ runs < MaxRuns
    /\ runs' = runs + 1
    /\ pc' = "attempt"
    /\ start' = 0
    /\ reqlog' = <<>>
    /\ ret' = {}
    /\ UNCHANGED <<svc, failsLeft, fetcher, expected_total, max_features,
                   all_features, bag_file, gbif_api, mem, ff>>
    /\ UNCHANGED <<resolveVars, remote, disk, pending, before, last, cache,
                   now, prev, naam_in, matchkey, earlier, geom_dict, result>>

InitRetry ==
    /\ fetcher \in Helpers
    /\ svc \in [n : {1, PAGE_SIZE + 1},
                failAt : {0 - 1},
                nm : {FALSE},
                hits : {0 - 1, 1, PAGE_SIZE + 1},
                hitsFail : {FALSE},
                order : {"id"},
                bad : {"none"},
                badAt : {0}]
    /\ svc.hits \in {0 - 1, svc.n}
    /\ failsLeft = 0
    /\ expected_total = 0 - 1
    /\ max_features = NoMax
    /\ pc = "attempt"
    /\ start = 0
    /\ all_features = <<>>
    /\ reqlog = <<>>
    /\ bag_file = NoFile
    /\ ResolveIdle
    /\ EnrichIdle
    /\ PureIdle

NextRetry == Attempt \/ NextCall

SpecRetry == InitRetry /\ [][NextRetry]_vars

\* C26: a call of download_page, count_features or gbif_get makes at most
\* MAX_RETRIES attempts, none after a successful one; it returns what the
\* first successful attempt brought, and after MAX_RETRIES failures
\* download_page returns an empty page, gbif_get returns None and
\* count_features raises
C26_RetryBounded ==
    fetcher \in Helpers =>
        /\ Len(reqlog) <= MAX_RETRIES
        /\ \A i \in 1..(Len(reqlog) - 1) : reqlog[i] # "200"
        /\ pc = "attempt" => \A i \in 1..Len(reqlog) : reqlog[i] # "200"
        /\ pc \in {"returned", "raised"} =>
              IF reqlog[Len(reqlog)] = "200"
              THEN pc = "returned" /\ ret = {Answer(fetcher)}
              ELSE /\ Len(reqlog) = MAX_RETRIES
                   /\ fetcher = "download_page" =>
                         pc = "returned" /\ ret = {<<>>}
                   /\ fetcher = "gbif_get" => pc = "returned" /\ ret = {}
                   /\ fetcher = "count_features" => pc = "raised"

\* gbif_get has used its three attempts and returned None
C26_Witness ==
    /\ fetcher = "gbif_get"
    /\ pc = "returned"
    /\ ret = {}
    /\ reqlog = <<"503", "timeout", "500">>

(***************************************************************************)
(* SpecFlora: enrich_flora_fauna.main step by step: one gemeente of the    *)
(* fetch loop per step, and a KeyboardInterrupt that can arrive between    *)
(* the steps of enrich_file.                                               *)
(***************************************************************************)
SAVE_EVERY == 10

floraFrame == <<fetchVarsNoPc, resolveVars, remote, last, now, naam_in,
                matchkey, earlier, geom_dict, result, ret>>

\* sorted(gemeente_namen), normalized
SortedNamen(features) ==
    SelectSeq(<<"epe", "utrecht">>,
              LAMBDA n : n \in GemeenteNamen(features))

\* fetch_gemeente_data: count_species returns 0, 0 when gbif_get returned
\* None
GemeenteData(norm) ==
    IF gbif_api[norm].down THEN FFRow(0, 0) ELSE gbif_api[norm].row

\* cache[norm] = data
CachePut(dict, norm, data) ==
    [n \in DOMAIN dict \cup {norm} |-> IF n = norm THEN data ELSE dict[n]]

\* a loop that never takes a row from the cache
FromCacheNever(norm) == FALSE

\* `if skip_cached and norm in cache`
FromCache(norm) == ff.skip_cached /\ norm \in DOMAIN mem

\* a handler that logs and returns without saving
FlushedNot(dict) == cache

\* gbif_flora_cache.json after save_cache(cache) in the handler of main
Flushed(dict) == dict

\* main up to its loop over the files
Main ==
    /\ pc = "idle"
    /\ runs < MaxRuns
    /\ runs' = runs + 1
    /\ \E files \in {<<"gemeenten">>, <<"buurten", "gemeenten">>,
                     <<"gemeenten", "wijken">>},
          no_cache \in BOOLEAN :
        IF gbif_api = <<>>
        THEN /\ pc' = "exit"
             /\ ff' = [NoFlora EXCEPT !.files = files, !.code = {1},
                                      !.skip_cached = ~no_cache]
             /\ mem' = <<>>
        ELSE /\ pc' = "main"
             /\ mem' = IF no_cache THEN <<>> ELSE cache
             /\ ff' = [NoFlora EXCEPT
                          !.files = files,
                          !.skip_cached = ~no_cache,
                          !.loaded = IF no_cache THEN <<>> ELSE cache]
    /\ UNCHANGED <<disk, pending, before, cache, prev, gbif_api, floraFrame>>

\* enrich_file up to its fetch loop.  Only gemeenten_<year>.geojson carries
\* gemeente names; a file that does not parse raises, which main logs
EnrichFileLoad ==
    /\ pc = "main"
    /\ ff.file < Len(ff.files)
    /\ IF ff.files[ff.file + 1] # "gemeenten"
       THEN /\ ff' = [ff EXCEPT !.file = @ + 1]
            /\ UNCHANGED <<pc, before>>
       ELSE IF disk.st # "ok"
       THEN /\ ff' = [ff EXCEPT !.file = @ + 1]
            /\ before' = disk
            /\ pc' = pc
       ELSE /\ ff' = [ff EXCEPT !.file = @ + 1,
                                !.todo = SortedNamen(disk.features),
                                !.ff_data = <<>>,
                                !.new_fetched = 0]
            /\ before' = disk
            /\ pc' = "fetching"
    /\ UNCHANGED <<disk, pending, cache, runs, prev, gbif_api, mem,
                   floraFrame>>

\* one round of `for naam in sorted(gemeente_namen)`
FetchGemeente ==
    /\ pc = "fetching"
    /\ ff.todo # <<>>
    /\ LET norm == Head(ff.todo)
       IN  IF FromCache(norm)
           THEN /\ ff' = [ff EXCEPT !.todo = Tail(@),
                                    !.ff_data = CachePut(@, norm, mem[norm])]
                /\ UNCHANGED <<mem, cache>>
           ELSE IF norm \notin DOMAIN gbif_api
           THEN /\ ff' = [ff EXCEPT !.todo = Tail(@)]
                /\ UNCHANGED <<mem, cache>>
           ELSE /\ ff' = [ff EXCEPT
                            !.todo = Tail(@),
                            !.ff_data = CachePut(@, norm, GemeenteData(norm)),
                            !.new_fetched = @ + 1,
                            !.asked = @ \cup {norm},
                            !.got = CachePut(@, norm, GemeenteData(norm))]
                /\ mem' = CachePut(mem, norm, GemeenteData(norm))
                /\ cache' = IF (ff.new_fetched + 1) % SAVE_EVERY = 0
                            THEN mem' ELSE cache
    /\ UNCHANGED <<pc, disk, pending, before, runs, prev, gbif_api,
                   floraFrame>>

\* the final save of the cache, the merge, and open(filename, "w")
MergeAndOpen ==
    /\ pc = "fetching"
    /\ ff.todo = <<>>
    /\ cache' = IF ff.new_fetched > 0 THEN mem ELSE cache
    /\ LET features == MergeFlora(before.features, ff.ff_data)
           inds == IndicatorsFlora(before.features, ff.ff_data)
       IN  IF inds = {}
           THEN /\ pc' = "main"
                /\ UNCHANGED <<disk, pending>>
           ELSE OpenForWrite(Doc(features, FloraMeta(before.metadata, inds)))
    /\ UNCHANGED <<before, runs, prev, gbif_api, mem, ff, floraFrame>>

\* json.dump is through; enrich_file returns True
FileWritten ==
    /\ pc = "writing"
    /\ fetcher = "none"
    /\ ff.files # <<>>
    /\ disk' = pending
    /\ pc' = "main"
    /\ ff' = [ff EXCEPT !.success = @ + 1]
    /\ UNCHANGED <<pending, before, cache, runs, prev, gbif_api, mem,
                   floraFrame>>

\* KeyboardInterrupt inside enrich_file, caught in main: between two
\* gemeenten, inside the requests for one (which then went out without a
\* row coming back), or while json.dump writes
KeyboardInterrupt ==
    /\ pc \in {"fetching", "writing"}
    /\ ff.files # <<>>
    /\ \E inside \in BOOLEAN :
        /\ inside =>
            /\ pc = "fetching"
            /\ ff.todo # <<>>
            /\ ~FromCache(Head(ff.todo))
            /\ Head(ff.todo) \in DOMAIN gbif_api
        /\ ff' = [ff EXCEPT
                    !.interrupted = pc,
                    !.code = {1},
                    !.asked = IF inside THEN @ \cup {Head(ff.todo)} ELSE @]
    /\ cache' = Flushed(mem)
    /\ pc' = "exit"
    /\ prev' = [NoPrev EXCEPT
                   !.name = pc,
                   !.run = runs,
                   !.input = [NoInput EXCEPT !.gbif = ff.loaded,
                                             !.skip_cached = ff.skip_cached],
                   !.doc = before]
    /\ UNCHANGED <<disk, pending, before, runs, gbif_api, mem, floraFrame>>

\* the end of main's loop
MainReturn ==
    /\ pc = "main"
    /\ ff.file = Len(ff.files)
    /\ ff' = [ff EXCEPT !.code = IF ff.success > 0 THEN {0} ELSE {1}]
    /\ pc' = "exit"
    /\ UNCHANGED <<disk, pending, before, cache, runs, prev, gbif_api, mem,
                   floraFrame>>

\* the process is gone, and its memory with it
Exit ==
    /\ pc = "exit"
    /\ pc' = "idle"
    /\ mem' = <<>>
    /\ ff' = NoFlora
    /\ pending' = NoGeo
    /\ before' = NoGeo
    /\ prev' = IF prev.name # "none" /\ prev.run < runs THEN NoPrev ELSE prev
    /\ UNCHANGED <<disk, cache, runs, gbif_api, floraFrame>>

\* what GBIF holds for the gemeenten of its GADM list, and the gemeenten
\* whose occurrence requests fail after all retries
GbifStates ==
    {<<>>,
     ("utrecht" :> [row |-> FFRow(7, 2), down |-> FALSE]),
     ("utrecht" :> [row |-> FFRow(7, 2), down |-> TRUE])
        @@ ("epe" :> [row |-> FFRow(9, 2), down |-> FALSE]),
     ("utrecht" :> [row |-> FFRow(7, 0), down |-> FALSE])
        @@ ("epe" :> [row |-> FFRow(9, 2), down |-> FALSE]),
     ("utrecht" :> [row |-> FFRow(7, 2), down |-> FALSE])
        @@ ("epe" :> [row |-> FFRow(9, 2), down |-> TRUE])}

\* gbif_flora_cache.json as earlier runs left it
CacheFiles ==
    {<<>>, ("epe" :> FFRow(4, 1)), ("utrecht" :> FFRow(7, 2))}

InitFlora ==
    /\ FetchIdle
    /\ ResolveIdle
    /\ pc = "idle"
    /\ now = 0
    /\ remote = <<>>
    /\ disk \in InitialFiles
                  \cup {[st |-> "partial", features |-> <<>>,
                         metadata |-> NoMeta]}
    /\ pending = NoGeo
    /\ before = NoGeo
    /\ last = NoPass
    /\ cache \in CacheFiles
    /\ runs = 0
    /\ prev = NoPrev
    /\ naam_in = <<>>
    /\ matchkey = NoKey
    /\ earlier = NoKey
    /\ geom_dict = NoGeom
    /\ result = NoResult
    /\ gbif_api \in GbifStates
    /\ mem = <<>>
    /\ ff = NoFlora
    /\ ret = {}

NextFlora ==
    \/ Main
    \/ EnrichFileLoad
    \/ FetchGemeente
    \/ MergeAndOpen
    \/ FileWritten
    \/ KeyboardInterrupt
    \/ MainReturn
    \/ Exit

SpecFlora == InitFlora /\ [][NextFlora]_vars


\* C23: after a KeyboardInterrupt inside enrich_file the cache file holds
\* every row fetch_gemeente_data returned in the run before the interrupt,
\* and main is at its exit with code 1, on the file it was interrupted in
C23_InterruptFlushes ==
    ff.interrupted # "no" =>
        /\ pc = "exit"
        /\ ff.code = {1}
        /\ \A n \in DOMAIN ff.got :
              n \in DOMAIN cache /\ cache[n] = ff.got[n]
        /\ ff.files[ff.file] = "gemeenten"

\* interrupted between Epe and Utrecht, with a file still to come; the
\* cache file did not hold Epe when the run began
C23_Witness ==
    /\ pc = "exit"
    /\ ff.interrupted = "fetching"
    /\ DOMAIN ff.got = {"epe"}
    /\ ff.todo = <<"utrecht">>
    /\ ff.file < Len(ff.files)
    /\ "epe" \notin DOMAIN ff.loaded
    /\ "epe" \in DOMAIN cache


\* ff_data of one run that is not interrupted and begins with this dict
UninterruptedData(features, loaded) ==
    [n \in {m \in GemeenteNamen(features) :
               m \in DOMAIN loaded \/ m \in DOMAIN gbif_api} |->
        IF n \in DOMAIN loaded THEN loaded[n] ELSE GemeenteData(n)]

\* the features that run leaves in the file
Uninterrupted(features, loaded) ==
    MergeFlora(features, UninterruptedData(features, loaded))

\* a run with the cache enabled that came to its end, after a run that was
\* interrupted
ReRunEnded ==
    /\ pc = "exit"
    /\ ff.interrupted = "no"
    /\ ff.skip_cached
    /\ prev.name \in {"fetching", "writing"}
    /\ prev.run = runs - 1

C28_FailedNotCached ==
    \A n \in DOMAIN gbif_api :
        (n \in ff.asked /\ gbif_api[n].down) => n \notin DOMAIN mem
====
